---------------------------- MODULE Spec2Model ----------------------------
(***************************************************************************)
(* Budget alerts and financial summaries of the personal finance           *)
(* dashboard (server/src/handlers/get_budgets.ts, get_summary.ts).         *)
(*                                                                         *)
(* Monetary columns are numeric(12,2); a stored amount and a SQL SUM are   *)
(* modelled as an integer number of cents.  The handlers turn these        *)
(* decimal strings into JavaScript numbers with parseFloat and then work   *)
(* in IEEE-754 binary64, so the model carries binary64 values explicitly:  *)
(* a 53-bit significand held in limbs, and a binary exponent.              *)
(*                                                                         *)
(* Timestamps are instants <<day, ms>>: day counts from 1970-01-01 and ms  *)
(* is the millisecond of that day.  The server's local time zone is UTC.   *)
(***************************************************************************)
EXTENDS Integers, Sequences, FiniteSets, TLC

(***************************************************************************)
(* Multi-precision naturals: W limbs of LimbBits bits, least significant   *)
(* limb first.                                                             *)
(***************************************************************************)
LimbBits == 24

LimbBase == 2^LimbBits

W == 5

RECURSIVE BigZeros(_)
BigZeros(n) == IF n <= 0 THEN <<>> ELSE <<0>> \o BigZeros(n - 1)

BigZero == BigZeros(W)

\* a natural below 2^31
BigFromInt(n) ==
  <<n % LimbBase, (n \div LimbBase) % LimbBase>> \o BigZeros(W - 2)

\* a value below 2^31
BigToInt(a) == a[1] + a[2] * LimbBase

BigIsZero(a) == \A i \in 1..W : a[i] = 0

BigOdd(a) == a[1] % 2 = 1

\* limb j of a, 0 outside 1..W
BigLimb(a, j) == IF j >= 1 /\ j <= W THEN a[j] ELSE 0

RECURSIVE BigCmpFrom(_, _, _)
BigCmpFrom(a, b, i) ==
  IF i = 0 THEN 0
  ELSE IF a[i] > b[i] THEN 1
  ELSE IF a[i] < b[i] THEN -1
  ELSE BigCmpFrom(a, b, i - 1)

\* -1, 0, 1 as a is below, equal to or above b
BigCmp(a, b) == BigCmpFrom(a, b, W)

RECURSIVE BigAddFrom(_, _, _, _)
BigAddFrom(a, b, i, c) ==
  IF i > W THEN <<>>
  ELSE LET s == a[i] + b[i] + c
       IN  <<s % LimbBase>> \o BigAddFrom(a, b, i + 1, s \div LimbBase)

BigAdd(a, b) == BigAddFrom(a, b, 1, 0)

BigDouble(a) == BigAdd(a, a)

RECURSIVE BigSubFrom(_, _, _, _)
BigSubFrom(a, b, i, c) ==
  IF i > W THEN <<>>
  ELSE LET d == a[i] - b[i] - c
       IN  IF d < 0 THEN <<d + LimbBase>> \o BigSubFrom(a, b, i + 1, 1)
           ELSE <<d>> \o BigSubFrom(a, b, i + 1, 0)

\* a - b for a >= b
BigSub(a, b) == BigSubFrom(a, b, 1, 0)

RECURSIVE BigMulFrom(_, _, _, _)
BigMulFrom(a, k, i, c) ==
  IF i > W THEN <<>>
  ELSE LET p == a[i] * k + c
       IN  <<p % LimbBase>> \o BigMulFrom(a, k, i + 1, p \div LimbBase)

\* a * k for a small natural k (k <= 100)
BigMulSmall(a, k) == BigMulFrom(a, k, 1, 0)

RECURSIVE BigShiftLeftFrom(_, _, _, _)
BigShiftLeftFrom(a, q, k, i) ==
  IF i > W THEN <<>>
  ELSE <<(BigLimb(a, i - q) % 2^(LimbBits - k)) * 2^k
         + (BigLimb(a, i - q - 1) \div 2^(LimbBits - k))>>
       \o BigShiftLeftFrom(a, q, k, i + 1)

\* a * 2^n (the result must fit W limbs)
BigShiftLeft(a, n) == BigShiftLeftFrom(a, n \div LimbBits, n % LimbBits, 1)

RECURSIVE BigShiftRightFrom(_, _, _, _)
BigShiftRightFrom(a, q, k, i) ==
  IF i > W THEN <<>>
  ELSE <<(BigLimb(a, i + q) \div 2^k)
         + (BigLimb(a, i + q + 1) % 2^k) * 2^(LimbBits - k)>>
       \o BigShiftRightFrom(a, q, k, i + 1)

\* floor(a / 2^n)
BigShiftRight(a, n) == BigShiftRightFrom(a, n \div LimbBits, n % LimbBits, 1)

RECURSIVE BigDivFrom(_, _, _, _)
BigDivFrom(a, d, i, rem) ==
  IF i = 0 THEN <<>>
  ELSE LET cur == rem * LimbBase + a[i]
       IN  BigDivFrom(a, d, i - 1, cur % d) \o <<cur \div d>>

\* floor(a / d) for a small natural d (0 < d <= 100)
BigDivSmall(a, d) == BigDivFrom(a, d, W, 0)

RECURSIVE BigModFrom(_, _, _, _)
BigModFrom(a, d, i, rem) ==
  IF i = 0 THEN rem ELSE BigModFrom(a, d, i - 1, (rem * LimbBase + a[i]) % d)

\* a mod d for a small natural d (0 < d <= 100)
BigModSmall(a, d) == BigModFrom(a, d, W, 0)

RECURSIVE BigTopLimb(_, _)
BigTopLimb(a, i) ==
  IF i = 0 THEN 0 ELSE IF a[i] /= 0 THEN i ELSE BigTopLimb(a, i - 1)

\* number of significant bits of a (0 for a = 0)
BigBitLen(a) ==
  LET t == BigTopLimb(a, W)
  IN  IF t = 0 THEN 0
      ELSE LimbBits * (t - 1)
           + (CHOOSE k \in 1..LimbBits : 2^(k - 1) <= a[t] /\ a[t] < 2^k)

(***************************************************************************)
(* IEEE-754 binary64 values: sign * m * 2^e with 2^52 <= m < 2^53, or 0    *)
(* (sign = 0).  Every operation rounds its exact result to nearest, ties   *)
(* to even.  Values stay far from the subnormal and overflow ranges.       *)
(***************************************************************************)
MantissaBits == 53

TwoTo52 == BigShiftLeft(BigFromInt(1), MantissaBits - 1)

TwoTo53 == BigShiftLeft(BigFromInt(1), MantissaBits)

FZero == [sign |-> 0, m |-> BigZero, e |-> 0]

\* the binary64 nearest to sign * (a + f) * 2^e, ties to even, where a > 0 and
\* 0 <= f < 1 with f > 0 exactly when sticky (then a has more than
\* MantissaBits bits)
RoundNearestEven(sign, a, sticky, e) ==
  LET len   == BigBitLen(a)
      sh    == len - MantissaBits
  IN  IF sh <= 0
      THEN [sign |-> sign, m |-> BigShiftLeft(a, -sh), e |-> e + sh]
      ELSE LET m0    == BigShiftRight(a, sh)
               guard == BigOdd(BigShiftRight(a, sh - 1))
               rest  == sticky
                        \/ BigShiftLeft(BigShiftRight(a, sh - 1), sh - 1) /= a
               up    == guard /\ (rest \/ BigOdd(m0))
               m1    == IF up THEN BigAdd(m0, BigFromInt(1)) ELSE m0
           IN  IF m1 = TwoTo53
               THEN [sign |-> sign, m |-> TwoTo52, e |-> e + sh + 1]
               ELSE [sign |-> sign, m |-> m1, e |-> e + sh]

\* parseFloat of the decimal text of a numeric(12,2) value of c cents
\* (0 <= c < 2^31): the binary64 nearest to c / 100
parseFloat(c) ==
  IF c = 0 THEN FZero
  ELSE LET a == BigShiftLeft(BigFromInt(c), 2 * MantissaBits - 31)
       IN  RoundNearestEven(1, BigDivSmall(a, 100), BigModSmall(a, 100) /= 0,
                            -(2 * MantissaBits - 31))

\* the number literal k (a natural below 2^31)
FInt(k) ==
  IF k = 0 THEN FZero ELSE RoundNearestEven(1, BigFromInt(k), FALSE, 0)

\* A natural below 2^(2 * HalfBits) as [hi, lo], the value hi * 2^HalfBits + lo
HalfBits == 27

Halves(a) ==
  [lo |-> a[1] + (a[2] % 2^(HalfBits - LimbBits)) * LimbBase,
   hi |-> a[2] \div 2^(HalfBits - LimbBits)
          + a[3] * 2^(2 * LimbBits - HalfBits)]

\* one step of restoring division by b of the remainder s.hi, s.lo (below b):
\* the next quotient bit is appended to s.q; s.n counts the bits still to come
DivStep(s, b) ==
  IF s.n = 0 THEN s
  ELSE LET lo2 == (2 * s.lo) % 2^HalfBits
           hi2 == 2 * s.hi + (2 * s.lo) \div 2^HalfBits
       IN  IF hi2 > b.hi \/ (hi2 = b.hi /\ lo2 >= b.lo)
           THEN [hi |-> hi2 - b.hi - (IF lo2 < b.lo THEN 1 ELSE 0),
                 lo |-> IF lo2 < b.lo THEN lo2 - b.lo + 2^HalfBits
                        ELSE lo2 - b.lo,
                 q  |-> 2 * s.q + 1,
                 n  |-> s.n - 1]
           ELSE [hi |-> hi2, lo |-> lo2, q |-> 2 * s.q, n |-> s.n - 1]

RECURSIVE DivSteps(_, _)
\* the next s.n quotient bits
DivSteps(s, b) == IF s.n = 0 THEN s ELSE DivSteps(DivStep(s, b), b)

\* the quotient digits are produced ChunkBits bits at a time
ChunkBits == 18

\* for significands b <= a < 2b: q = the first 3 * ChunkBits bits of a / b
\* (that is floor(a * 2^(3 * ChunkBits - 1) / b)), and whether a remainder is
\* left
QuotientBits(a, b) ==
  LET ha == Halves(a)
      hb == Halves(b)
      c1 == DivSteps([hi |-> ha.hi - hb.hi - (IF ha.lo < hb.lo THEN 1 ELSE 0),
                      lo |-> IF ha.lo < hb.lo THEN ha.lo - hb.lo + 2^HalfBits
                             ELSE ha.lo - hb.lo,
                      q  |-> 1, n |-> ChunkBits - 1], hb)
      c2 == DivSteps([c1 EXCEPT !.q = 0, !.n = ChunkBits], hb)
      c3 == DivSteps([c2 EXCEPT !.q = 0, !.n = ChunkBits], hb)
  IN  [q |-> BigAdd(BigShiftLeft(BigFromInt(c1.q), 2 * ChunkBits),
                    BigAdd(BigShiftLeft(BigFromInt(c2.q), ChunkBits),
                           BigFromInt(c3.q))),
       rest |-> c3.hi /= 0 \/ c3.lo /= 0]

\* x / y for y /= 0
FDiv(x, y) ==
  IF x.sign = 0 THEN FZero
  ELSE LET lt == BigCmp(x.m, y.m) < 0
           \* x.m / y.m lies in (1/2, 2): double x.m when it is below y.m
           q  == QuotientBits(IF lt THEN BigDouble(x.m) ELSE x.m, y.m)
       IN  RoundNearestEven(x.sign * y.sign, q.q, q.rest,
                            x.e - y.e - (3 * ChunkBits - 1)
                              - (IF lt THEN 1 ELSE 0))

\* x * k for a natural literal k <= 100
FMulInt(x, k) ==
  IF x.sign = 0 \/ k = 0 THEN FZero
  ELSE RoundNearestEven(x.sign, BigMulSmall(x.m, k), FALSE, x.e)

\* -1, 0, 1 as |x| is below, equal to or above |y|
FCmpAbs(x, y) ==
  IF x.sign = 0 /\ y.sign = 0 THEN 0
  ELSE IF x.sign = 0 THEN -1
  ELSE IF y.sign = 0 THEN 1
  ELSE IF x.e > y.e THEN 1
  ELSE IF x.e < y.e THEN -1
  ELSE BigCmp(x.m, y.m)

\* -1, 0, 1 as x is below, equal to or above y
FCmp(x, y) ==
  IF x.sign /= y.sign THEN (IF x.sign > y.sign THEN 1 ELSE -1)
  ELSE x.sign * FCmpAbs(x, y)

\* x - y (the exponents differ by less than LimbBits * W - MantissaBits - 1)
FSub(x, y) ==
  IF y.sign = 0 THEN x
  ELSE IF x.sign = 0 THEN [y EXCEPT !.sign = -y.sign]
  ELSE LET emin == IF x.e < y.e THEN x.e ELSE y.e
           ax   == BigShiftLeft(x.m, x.e - emin)
           ay   == BigShiftLeft(y.m, y.e - emin)
       IN  IF x.sign /= y.sign
           THEN RoundNearestEven(x.sign, BigAdd(ax, ay), FALSE, emin)
           ELSE IF BigCmp(ax, ay) = 0 THEN FZero
           ELSE IF BigCmp(ax, ay) > 0
           THEN RoundNearestEven(x.sign, BigSub(ax, ay), FALSE, emin)
           ELSE RoundNearestEven(-x.sign, BigSub(ay, ax), FALSE, emin)

\* x + y
FAdd(x, y) == FSub(x, [y EXCEPT !.sign = -y.sign])

RECURSIVE FSumFrom(_, _, _)
\* acc + xs[k] + xs[k + 1] + ..., added from left to right
FSumFrom(xs, k, acc) ==
  IF k > Len(xs) THEN acc ELSE FSumFrom(xs, k + 1, FAdd(acc, xs[k]))

\* the sum of the numbers of the sequence, added from left to right
FSum(xs) == FSumFrom(xs, 1, FZero)

\* Math.round(x) for 0 <= x < 2^31: floor(x + 1/2), as an integer
MathRound(x) ==
  IF x.sign = 0 THEN 0
  ELSE IF x.e >= 0 THEN BigToInt(BigShiftLeft(x.m, x.e))
  ELSE (BigToInt(BigShiftRight(x.m, (-x.e) - 1)) + 1) \div 2

(***************************************************************************)
(* Calendar and JavaScript Date.  An instant is <<day, ms>>.               *)
(***************************************************************************)
MsPerDay == 86400000

\* days from 1970-01-01 to the civil date y-m-d (m in 1..12), proleptic
\* Gregorian calendar
DaysFromCivil(y, m, d) ==
  LET yy  == IF m <= 2 THEN y - 1 ELSE y
      era == yy \div 400
      yoe == yy - era * 400
      mp  == IF m > 2 THEN m - 3 ELSE m + 9
      doy == (153 * mp + 2) \div 5 + d - 1
      doe == yoe * 365 + yoe \div 4 - yoe \div 100 + doy
  IN  era * 146097 + doe - 719468

\* new Date(year, monthIndex, day, 0, 0, 0, ms): monthIndex counts from 0 and
\* may exceed 11, day may be 0 or exceed the month's length; both carry over
Date(year, monthIndex, day, ms) ==
  <<DaysFromCivil(year + monthIndex \div 12, (monthIndex % 12) + 1, 1) + day - 1
      + ms \div MsPerDay,
    ms % MsPerDay>>

\* the time of day 23:59:59.999 as passed to new Date(y, m, d, 23, 59, 59, 999)
EndOfDayMs == 23 * 3600000 + 59 * 60000 + 59 * 1000 + 999

\* the civil date [y, m, d] of the day number z (days from 1970-01-01)
CivilFromDays(z) ==
  LET zz  == z + 719468
      era == zz \div 146097
      doe == zz - era * 146097
      yoe == (doe - doe \div 1460 + doe \div 36524 - doe \div 146096) \div 365
      doy == doe - (365 * yoe + yoe \div 4 - yoe \div 100)
      mp  == (5 * doy + 2) \div 153
      m   == IF mp < 10 THEN mp + 3 ELSE mp - 9
  IN  [y |-> yoe + era * 400 + (IF m <= 2 THEN 1 ELSE 0),
       m |-> m,
       d |-> doy - (153 * mp + 2) \div 5 + 1]

\* Date.prototype.getFullYear
getFullYear(t) == CivilFromDays(t[1]).y

\* Date.prototype.getMonth, 0..11
getMonth(t) == CivilFromDays(t[1]).m - 1

\* a <= b on instants, as the SQL comparison of two timestamps
InstantLeq(a, b) == a[1] < b[1] \/ (a[1] = b[1] /\ a[2] <= b[2])

(***************************************************************************)
(* Tables (server/src/db/schema.ts).  A null category_id is NULL, a null   *)
(* category name is NULLNAME; serial ids start at 1 and names are          *)
(* non-empty.                                                              *)
(***************************************************************************)
NULL == 0

NULLNAME == ""

VARIABLES
  users,         \* set of user ids
  categories,    \* set of [id, user_id, name]
  transactions,  \* set of [id, user_id, category_id, type, amount, date]
  budgets,       \* sequence (storage order) of
                 \*   [id, user_id, category_id, amount, period,
                 \*    created_at, updated_at]
  now,           \* the system clock, an instant
  alertsCalls,   \* the getBudgetAlerts call of each request
  summaryCalls,  \* the getSummary call of each request
  writeCalls,    \* the createBudget or updateTransaction call of each request
  budgetSerial   \* the last id the budgets' serial column has handed out

vars ==
  <<users, categories, transactions, budgets, now, alertsCalls, summaryCalls,
    writeCalls, budgetSerial>>

\* what the read handlers never touch besides the tables
writes == <<writeCalls, budgetSerial>>

\* the stored tables
tables == <<users, categories, transactions, budgets>>

\* the requests that can be in flight at the same time
Requests == {1, 2}

\* the calls of request 1
alertsCall == alertsCalls[1]

summaryCall == summaryCalls[1]

\* request 1 ready to be made, the others not made at all
OnlyFirst(idle) ==
  [r \in Requests |-> IF r = 1 THEN idle ELSE [idle EXCEPT !.pc = "off"]]

RECURSIVE SumAmounts(_)
\* SUM(amount) over a set of transaction rows, in cents
SumAmounts(rows) ==
  IF rows = {} THEN 0
  ELSE LET r == CHOOSE x \in rows : TRUE
       IN  r.amount + SumAmounts(rows \ {r})

\* categoriesTable.name of the left-joined category row, null without a match
JoinedCategoryName(categoryId) ==
  IF \E c \in categories : c.id = categoryId
  THEN (CHOOSE c \in categories : c.id = categoryId).name
  ELSE NULLNAME

(***************************************************************************)
(* getBudgetAlerts                                                         *)
(***************************************************************************)
\* the budgets query: the user's budgets left-joined with their category
RECURSIVE BudgetsQueryFrom(_, _)
BudgetsQueryFrom(userId, i) ==
  IF i > Len(budgets) THEN <<>>
  ELSE (IF budgets[i].user_id = userId
        THEN <<[budget_id     |-> budgets[i].id,
                budget_amount |-> budgets[i].amount,
                period        |-> budgets[i].period,
                category_id   |-> budgets[i].category_id,
                category_name |-> JoinedCategoryName(budgets[i].category_id)]>>
        ELSE <<>>)
       \o BudgetsQueryFrom(userId, i + 1)

BudgetsQuery(userId) == BudgetsQueryFrom(userId, 1)

\* BudgetDateRange with the yearly range taken for every period
BudgetDateRangeOfYear(period, t) ==
  [startDate |-> Date(getFullYear(t), 0, 1, 0),
   endDate   |-> Date(getFullYear(t), 11, 31, 0)]

\* startDate and endDate of the budget period containing the instant t
BudgetDateRange(period, t) ==
  LET currentYear  == getFullYear(t)
      currentMonth == getMonth(t) + 1
  IN  IF period = "monthly"
      THEN [startDate |-> Date(currentYear, currentMonth - 1, 1, 0),
            endDate   |-> Date(currentYear, currentMonth, 0, 0)]
      ELSE [startDate |-> Date(currentYear, 0, 1, 0),
            endDate   |-> Date(currentYear, 11, 31, 0)]

\* SpendingRows without the condition on the transaction type
SpendingRowsOfAnyType(rows, userId, categoryId, range) ==
  {t \in rows :
     /\ t.user_id = userId
     /\ InstantLeq(range.startDate, t.date)
     /\ InstantLeq(t.date, range.endDate)
     /\ (categoryId /= NULL => t.category_id = categoryId)}

\* the rows of the table `rows` matched by the conditions of the spending query
SpendingRows(rows, userId, categoryId, range) ==
  {t \in rows :
     /\ t.user_id = userId
     /\ t.type = "expense"
     /\ InstantLeq(range.startDate, t.date)
     /\ InstantLeq(t.date, range.endDate)
     /\ (categoryId /= NULL => t.category_id = categoryId)}

\* budgetAmount > 0 ? (spentAmount / budgetAmount) * 100 : 0
PercentageUsed(spentAmount, budgetAmount) ==
  IF FCmp(budgetAmount, FZero) > 0
  THEN FMulInt(FDiv(spentAmount, budgetAmount), 100)
  ELSE FZero

\* percentageUsed >= 80
AboveThreshold(percentageUsed) == FCmp(percentageUsed, FInt(80)) >= 0

\* Math.round(percentageUsed * 100) / 100
RoundToTwoDecimals(percentageUsed) ==
  FDiv(FInt(MathRound(FMulInt(percentageUsed, 100))), FInt(100))

\* one iteration of the loop over the fetched budgets, for the budget row
\* `budget`, evaluated at the instant t against the transaction table `rows`;
\* total_spent is COALESCE(SUM(amount), 0) in cents
EvaluateBudget(rows, userId, budget, t) ==
  LET budgetAmount   == parseFloat(budget.budget_amount)
      range          == BudgetDateRange(budget.period, t)
      matched        == SpendingRows(rows, userId, budget.category_id, range)
      total_spent    == SumAmounts(matched)
      spentAmount    == parseFloat(total_spent)
      percentageUsed == PercentageUsed(spentAmount, budgetAmount)
  IN  [budget      |-> budget,
       now         |-> t,
       range       |-> range,
       matched     |-> {r.id : r \in matched},
       total_spent |-> total_spent,
       alerts      |->
         IF AboveThreshold(percentageUsed)
         THEN <<[budget_id       |-> budget.budget_id,
                 category_name   |-> budget.category_name,
                 budget_amount   |-> budgetAmount,
                 spent_amount    |-> spentAmount,
                 percentage_used |-> RoundToTwoDecimals(percentageUsed),
                 period          |-> budget.period]>>
         ELSE <<>>]

\* insert alert x into the sorted sequence s behind every alert that the
\* comparator (a, b) => b.percentage_used - a.percentage_used does not put
\* after x
RECURSIVE InsertAlert(_, _)
InsertAlert(s, x) ==
  IF s = <<>> THEN <<x>>
  ELSE IF FCmp(Head(s).percentage_used, x.percentage_used) >= 0
  THEN <<Head(s)>> \o InsertAlert(Tail(s), x)
  ELSE <<x>> \o s

\* SortAlerts leaving the alerts in the order they were pushed
SortAlertsAsPushed(s) == s

\* alerts.sort((a, b) => b.percentage_used - a.percentage_used), a stable sort
RECURSIVE SortAlerts(_)
SortAlerts(s) ==
  IF s = <<>> THEN <<>>
  ELSE InsertAlert(SortAlerts(SubSeq(s, 1, Len(s) - 1)), s[Len(s)])

IdleAlertsCall ==
  [pc |-> "idle", userId |-> 0, budgets |-> <<>>, i |-> 0, alerts |-> <<>>,
   evals |-> <<>>, queries |-> 0, thrown |-> "", error |-> "",
   result |-> <<>>]

\* the errors a query rejects with
DbErrors == {"Connection terminated unexpectedly",
             "canceling statement due to statement timeout"}

\* AlertsStart taking the budgets it reads out of the table
AlertsStartConsuming(r, userId) ==
  /\ alertsCalls[r].pc = "idle"
  /\ LET rows == BudgetsQuery(userId)
     IN  alertsCalls' =
           [alertsCalls EXCEPT ![r] =
              IF Len(rows) = 0
              THEN [IdleAlertsCall EXCEPT !.pc = "done", !.userId = userId,
                                          !.queries = 1]
              ELSE [IdleAlertsCall EXCEPT !.pc = "loop", !.userId = userId,
                                          !.queries = 1,
                                          !.budgets = rows, !.i = 1]]
  /\ budgets' = SelectSeq(budgets, LAMBDA b : b.user_id /= userId)
  /\ UNCHANGED <<users, categories, transactions, now, summaryCalls, writes>>

\* getBudgetAlerts(userId) of request r up to the completion of the budgets
\* query; without budgets it returns []
AlertsStart(r, userId) ==
  /\ alertsCalls[r].pc = "idle"
  /\ LET rows == BudgetsQuery(userId)
     IN  alertsCalls' =
           [alertsCalls EXCEPT ![r] =
              IF Len(rows) = 0
              THEN [IdleAlertsCall EXCEPT !.pc = "done", !.userId = userId,
                                          !.queries = 1]
              ELSE [IdleAlertsCall EXCEPT !.pc = "loop", !.userId = userId,
                                          !.queries = 1,
                                          !.budgets = rows, !.i = 1]]
  /\ UNCHANGED <<tables, now, summaryCalls, writes>>

\* one loop iteration: read the clock, run the spending query, push the
\* alert; after the last budget the alerts are sorted and returned.  evals
\* records what each iteration saw.
AlertsBudget(r) ==
  /\ alertsCalls[r].pc = "loop"
  /\ LET call == alertsCalls[r]
         ev   == EvaluateBudget(transactions, call.userId,
                                call.budgets[call.i], now)
         all  == call.alerts \o ev.alerts
         last == call.i = Len(call.budgets)
     IN  alertsCalls' =
           [alertsCalls EXCEPT ![r] =
              [call EXCEPT
                 !.i       = call.i + 1,
                 !.queries = call.queries + 1,
                 !.alerts  = all,
                 !.evals   = Append(call.evals,
                                    [budget |-> ev.budget, now |-> ev.now,
                                     range |-> ev.range,
                                     matched |-> ev.matched,
                                     total_spent |-> ev.total_spent]),
                 !.pc      = IF last THEN "done" ELSE "loop",
                 !.result  = IF last THEN SortAlerts(all) ELSE <<>>]]
  /\ UNCHANGED <<tables, now, summaryCalls, writes>>

\* getBudgetAlerts(userId) of request r whose budgets query rejects: the
\* catch block logs the error and throws it again
AlertsBudgetsQueryFails(r, userId, error) ==
  /\ alertsCalls[r].pc = "idle"
  /\ alertsCalls' =
       [alertsCalls EXCEPT ![r] =
          [IdleAlertsCall EXCEPT !.pc = "failed", !.userId = userId,
                                 !.queries = 1, !.thrown = error,
                                 !.error = error]]
  /\ UNCHANGED <<tables, now, summaryCalls, writes>>

\* AlertsSpendingQueryFails leaving the budget out and going on
AlertsSpendingQuerySkipped(r, error) ==
  /\ alertsCalls[r].pc = "loop"
  /\ LET call == alertsCalls[r]
         last == call.i = Len(call.budgets)
     IN  alertsCalls' =
           [alertsCalls EXCEPT ![r] =
              [call EXCEPT
                 !.i       = call.i + 1,
                 !.queries = call.queries + 1,
                 !.thrown  = error,
                 !.pc      = IF last THEN "done" ELSE "loop",
                 !.result  = IF last THEN SortAlerts(call.alerts) ELSE <<>>]]
  /\ UNCHANGED <<tables, now, summaryCalls, writes>>

\* a loop iteration whose spending query rejects: the call throws the error
\* and its locals, the alerts pushed so far among them, are gone
AlertsSpendingQueryFails(r, error) ==
  /\ alertsCalls[r].pc = "loop"
  /\ alertsCalls' =
       [alertsCalls EXCEPT ![r] =
          [IdleAlertsCall EXCEPT !.pc = "failed",
                                 !.userId = alertsCalls[r].userId,
                                 !.queries = alertsCalls[r].queries + 1,
                                 !.thrown = error, !.error = error]]
  /\ UNCHANGED <<tables, now, summaryCalls, writes>>

RECURSIVE AlertsFrom(_, _, _, _, _)
\* the alerts pushed for budgets k.. when every iteration runs at instant t
\* against the transaction table `rows`
AlertsFrom(rows, userId, budgetRows, t, k) ==
  IF k > Len(budgetRows) THEN <<>>
  ELSE EvaluateBudget(rows, userId, budgetRows[k], t).alerts
         \o AlertsFrom(rows, userId, budgetRows, t, k + 1)

\* the list getBudgetAlerts returns for userId at instant t over the
\* transaction table `rows`
getBudgetAlerts(rows, userId, t) ==
  SortAlerts(AlertsFrom(rows, userId, BudgetsQuery(userId), t, 1))

(***************************************************************************)
(* getSummary                                                              *)
(***************************************************************************)
\* input.month when the caller passes none
NoMonth == 0

\* the total of a SUM over no rows
NoTotal == -1

\* getDateRange with the last day of the month taken at 00:00
getDateRangeToMidnight(input) ==
  IF input.period = "monthly"
  THEN IF input.month = NoMonth
       THEN [ok |-> FALSE, error |-> "Month is required for monthly summaries",
             startDate |-> <<0, 0>>, endDate |-> <<0, 0>>]
       ELSE [ok |-> TRUE, error |-> "",
             startDate |-> Date(input.year, input.month - 1, 1, 0),
             endDate   |-> Date(input.year, input.month, 0, 0)]
  ELSE [ok |-> TRUE, error |-> "",
        startDate |-> Date(input.year, 0, 1, 0),
        endDate   |-> Date(input.year, 11, 31, 0)]

\* getDateRange with a missing month read as January
getDateRangeDefaultingMonth(input) ==
  IF input.period = "monthly"
  THEN LET month == IF input.month = NoMonth THEN 1 ELSE input.month
       IN  [ok |-> TRUE, error |-> "",
            startDate |-> Date(input.year, month - 1, 1, 0),
            endDate   |-> Date(input.year, month, 0, EndOfDayMs)]
  ELSE [ok |-> TRUE, error |-> "",
        startDate |-> Date(input.year, 0, 1, 0),
        endDate   |-> Date(input.year, 11, 31, EndOfDayMs)]

\* getDateRange(input): ok is FALSE when it throws Error(error)
getDateRange(input) ==
  IF input.period = "monthly"
  THEN IF input.month = NoMonth
       THEN [ok |-> FALSE, error |-> "Month is required for monthly summaries",
             startDate |-> <<0, 0>>, endDate |-> <<0, 0>>]
       ELSE [ok |-> TRUE, error |-> "",
             startDate |-> Date(input.year, input.month - 1, 1, 0),
             endDate   |-> Date(input.year, input.month, 0, EndOfDayMs)]
  ELSE [ok |-> TRUE, error |-> "",
        startDate |-> Date(input.year, 0, 1, 0),
        endDate   |-> Date(input.year, 11, 31, EndOfDayMs)]

\* the rows matched by the base conditions: the user's, dated in the range
SummaryRows(userId, range) ==
  {t \in transactions :
     /\ t.user_id = userId
     /\ InstantLeq(range.startDate, t.date)
     /\ InstantLeq(t.date, range.endDate)}

\* sum(amount) over the rows, NULL over none
SumOrNull(rows) == IF rows = {} THEN NoTotal ELSE SumAmounts(rows)

\* parseFloat(total || '0')
ParseTotal(total) == parseFloat(IF total = NoTotal THEN 0 ELSE total)

\* select sum(amount) where ...conditions and type = ...
TotalQuery(userId, range, type) ==
  SumOrNull({t \in SummaryRows(userId, range) : t.type = type})

\* CategoryGroups over the expense rows alone
CategoryGroupsOfExpenses(userId, range) ==
  LET rows == {t \in SummaryRows(userId, range) : t.type = "expense"}
  IN  {[category_id       |-> c,
        category_name     |-> JoinedCategoryName(c),
        total_amount      |->
          ParseTotal(SumOrNull({t \in rows : t.category_id = c})),
        transaction_count |-> Cardinality({t \in rows : t.category_id = c})] :
         c \in {t.category_id : t \in rows}}

\* CategoryGroups with an inner join of the categories
CategoryGroupsInnerJoin(userId, range) ==
  LET rows == {t \in SummaryRows(userId, range) : t.category_id /= NULL}
  IN  {[category_id       |-> c,
        category_name     |-> JoinedCategoryName(c),
        total_amount      |->
          ParseTotal(SumOrNull({t \in rows : t.category_id = c})),
        transaction_count |-> Cardinality({t \in rows : t.category_id = c})] :
         c \in {t.category_id : t \in rows}}

\* the category breakdown query mapped to the output rows, one per
\* (category_id, categories.name) group, as a set
CategoryGroups(userId, range) ==
  LET rows == SummaryRows(userId, range)
  IN  {[category_id       |-> c,
        category_name     |-> JoinedCategoryName(c),
        total_amount      |->
          ParseTotal(SumOrNull({t \in rows : t.category_id = c})),
        transaction_count |-> Cardinality({t \in rows : t.category_id = c})] :
         c \in {t.category_id : t \in rows}}

\* the orders in which a query without ORDER BY can return the rows of S
Orderings(S) ==
  {f \in [1..Cardinality(S) -> S] : \A x \in S : \E i \in DOMAIN f : f[i] = x}

\* ExtractMonth counting the months from 0
ExtractMonthIndex(date) == CivilFromDays(date[1]).m - 1

\* EXTRACT(MONTH FROM date)
ExtractMonth(date) == CivilFromDays(date[1]).m

\* MonthlyData holding an entry only for the months that have rows
MonthlyDataOfGroups(userId, range) ==
  LET rows == SummaryRows(userId, range)
      Of(month, type) ==
        {t \in rows : ExtractMonth(t.date) = month /\ t.type = type}
      Amount(month, type) ==
        IF Of(month, type) = {} THEN FZero
        ELSE ParseTotal(SumOrNull(Of(month, type)))
      months == SelectSeq([m \in 1..12 |-> m],
                          LAMBDA m : \E t \in rows : ExtractMonth(t.date) = m)
  IN  [i \in 1..Len(months) |-> [month    |-> months[i],
                                 income   |-> Amount(months[i], "income"),
                                 expenses |-> Amount(months[i], "expense")]]

\* monthlyData after the forEach over the rows grouped by month and type
MonthlyData(userId, range) ==
  LET rows == SummaryRows(userId, range)
      Of(month, type) ==
        {t \in rows : ExtractMonth(t.date) = month /\ t.type = type}
      Amount(month, type) ==
        IF Of(month, type) = {} THEN FZero
        ELSE ParseTotal(SumOrNull(Of(month, type)))
  IN  [i \in 1..12 |-> [month    |-> i,
                        income   |-> Amount(i, "income"),
                        expenses |-> Amount(i, "expense")]]

\* monthly_data initialised to an empty array
EmptyMonthlyData == [defined |-> TRUE, entries |-> <<>>]

\* monthly_data of a monthly Summary: the variable is never assigned
Undefined == [defined |-> FALSE, entries |-> <<>>]

\* monthly_data holding the array `entries`
Defined(entries) == [defined |-> TRUE, entries |-> entries]

\* the Summary returned
SummaryOf(call, monthlyData) ==
  LET totalIncome   == ParseTotal(call.totalIncomeResult)
      totalExpenses == ParseTotal(call.totalExpensesResult)
  IN  [total_income   |-> totalIncome,
       total_expenses |-> totalExpenses,
       net_income     |-> FSub(totalIncome, totalExpenses),
       categories     |-> call.categories,
       monthly_data   |-> monthlyData]

IdleSummaryCall ==
  [pc |-> "idle", input |-> [user_id |-> 0, period |-> "", year |-> 0,
                             month |-> NoMonth],
   range |-> [startDate |-> <<0, 0>>, endDate |-> <<0, 0>>], queries |-> 0,
   totalIncomeResult |-> NoTotal, totalExpensesResult |-> NoTotal,
   categories |-> <<>>, thrown |-> "", error |-> "", result |-> <<>>]

\* getSummary(input) of request r up to the first query: getDateRange throws
\* or yields the range
SummaryStart(r, input) ==
  /\ summaryCalls[r].pc = "idle"
  /\ LET range == getDateRange(input)
     IN  summaryCalls' =
           [summaryCalls EXCEPT ![r] =
              IF range.ok
              THEN [IdleSummaryCall EXCEPT
                      !.pc = "income", !.input = input,
                      !.range = [startDate |-> range.startDate,
                                 endDate |-> range.endDate]]
              ELSE [IdleSummaryCall EXCEPT
                      !.pc = "failed", !.input = input,
                      !.error = range.error]]
  /\ UNCHANGED <<tables, now, alertsCalls, writes>>

\* the total income query
SummaryIncome(r) ==
  /\ summaryCalls[r].pc = "income"
  /\ LET call == summaryCalls[r]
     IN  summaryCalls' =
           [summaryCalls EXCEPT ![r] =
              [call EXCEPT
                 !.pc = "expenses",
                 !.queries = call.queries + 1,
                 !.totalIncomeResult =
                   TotalQuery(call.input.user_id, call.range, "income")]]
  /\ UNCHANGED <<tables, now, alertsCalls, writes>>

\* SummaryExpenses with the conditions of the first request, as if the
\* conditions array were shared by the requests
SummaryExpensesOfFirstRequest(r) ==
  /\ summaryCalls[r].pc = "expenses"
  /\ LET call == summaryCalls[r]
     IN  summaryCalls' =
           [summaryCalls EXCEPT ![r] =
              [call EXCEPT
                 !.pc = "categories",
                 !.queries = call.queries + 1,
                 !.totalExpensesResult =
                   TotalQuery(summaryCalls[1].input.user_id,
                              summaryCalls[1].range, "expense")]]
  /\ UNCHANGED <<tables, now, alertsCalls, writes>>

\* the total expenses query
SummaryExpenses(r) ==
  /\ summaryCalls[r].pc = "expenses"
  /\ LET call == summaryCalls[r]
     IN  summaryCalls' =
           [summaryCalls EXCEPT ![r] =
              [call EXCEPT
                 !.pc = "categories",
                 !.queries = call.queries + 1,
                 !.totalExpensesResult =
                   TotalQuery(call.input.user_id, call.range, "expense")]]
  /\ UNCHANGED <<tables, now, alertsCalls, writes>>

\* the category breakdown query; a monthly summary is returned after it
SummaryCategories(r) ==
  /\ summaryCalls[r].pc = "categories"
  /\ \E rows \in Orderings(CategoryGroups(summaryCalls[r].input.user_id,
                                          summaryCalls[r].range)) :
       LET call == [summaryCalls[r] EXCEPT
                      !.queries = summaryCalls[r].queries + 1,
                      !.categories = rows]
       IN  summaryCalls' =
             [summaryCalls EXCEPT ![r] =
                IF call.input.period = "yearly"
                THEN [call EXCEPT !.pc = "monthly"]
                ELSE [call EXCEPT !.pc = "done",
                                  !.result = SummaryOf(call, Undefined)]]
  /\ UNCHANGED <<tables, now, alertsCalls, writes>>

\* the per-month query of a yearly summary, which is then returned
SummaryMonthly(r) ==
  /\ summaryCalls[r].pc = "monthly"
  /\ LET call == [summaryCalls[r] EXCEPT
                    !.queries = summaryCalls[r].queries + 1]
     IN  summaryCalls' =
           [summaryCalls EXCEPT ![r] =
              [call EXCEPT
                 !.pc = "done",
                 !.result =
                   SummaryOf(call, Defined(MonthlyData(call.input.user_id,
                                                       call.range)))]]
  /\ UNCHANGED <<tables, now, alertsCalls, writes>>

\* one of the queries of getSummary rejects: the catch block logs the error
\* and throws it again, and the locals of the call are gone
SummaryQueryFails(r, error) ==
  /\ summaryCalls[r].pc \in {"income", "expenses", "categories", "monthly"}
  /\ summaryCalls' =
       [summaryCalls EXCEPT ![r] =
          [IdleSummaryCall EXCEPT !.pc = "failed",
                                  !.input = summaryCalls[r].input,
                                  !.range = summaryCalls[r].range,
                                  !.queries = summaryCalls[r].queries + 1,
                                  !.thrown = error, !.error = error]]
  /\ UNCHANGED <<tables, now, alertsCalls, writes>>

\* the Summaries getSummary(input) can return when it runs on its own
\* against the tables, one per order of the category rows; none when
\* getDateRange throws
getSummary(input) ==
  LET range == getDateRange(input)
      r     == [startDate |-> range.startDate, endDate |-> range.endDate]
      call(rows) ==
        [IdleSummaryCall EXCEPT
           !.totalIncomeResult = TotalQuery(input.user_id, r, "income"),
           !.totalExpensesResult = TotalQuery(input.user_id, r, "expense"),
           !.categories = rows]
  IN  IF ~range.ok THEN {}
      ELSE {SummaryOf(call(rows),
                      IF input.period = "yearly"
                      THEN Defined(MonthlyData(input.user_id, r))
                      ELSE Undefined) :
              rows \in Orderings(CategoryGroups(input.user_id, r))}

(***************************************************************************)
(* createBudget and updateTransaction.  Each awaited statement is a step.  *)
(* An input amount is a number of thousandths.                             *)
(***************************************************************************)
\* an optional input field that is undefined: a number, a type, a date
Absent == -1

AbsentType == ""

AbsentDate == <<>>

\* amount.toString() written to a numeric(12, 2) column: the decimal digits
\* of the number rounded to cents, half away from zero
StoreAmount(thousandths) == (thousandths + 5) \div 10

\* a write call: its position, handler and input, the row its first select
\* returned, its error or result; `existed` and `before` remember what the
\* tables held for it (a budget for the input when createBudget started, the
\* Summaries of the getSummary calls in flight before the update)
IdleWriteCall ==
  [pc |-> "idle", op |-> "", input |-> <<>>, existing |-> <<>>,
   existed |-> FALSE, before |-> <<>>, error |-> "", result |-> <<>>]

\* no request is a write
NoWriteCalls == [r \in Requests |-> [IdleWriteCall EXCEPT !.pc = "off"]]

\* the message of the error createBudget throws for a duplicate
BudgetAlreadyExists ==
  "Budget already exists for this user, category, and period"

\* the stored budgets of the user for the category (null for null) and the
\* period
ExistingBudgets(input) ==
  SelectSeq(budgets,
            LAMBDA b : /\ b.user_id = input.user_id
                       /\ b.category_id = input.category_id
                       /\ b.period = input.period)

\* createBudget(input) of request r up to the completion of the select of
\* the user
CreateBudgetUser(r, input) ==
  /\ writeCalls[r].pc = "idle"
  /\ LET call == [IdleWriteCall EXCEPT
                    !.op = "createBudget", !.input = input,
                    !.existed = ExistingBudgets(input) /= <<>>]
     IN  writeCalls' =
           [writeCalls EXCEPT ![r] =
              IF input.user_id \notin users
              THEN [call EXCEPT !.pc = "failed", !.error = "User not found"]
              ELSE [call EXCEPT !.pc = "category"]]
  /\ UNCHANGED <<tables, now, alertsCalls, summaryCalls, budgetSerial>>

\* the select of the category with the input's id and user_id, skipped for
\* a null category_id
CreateBudgetCategory(r) ==
  /\ writeCalls[r].pc = "category"
  /\ LET input == writeCalls[r].input
         found == \E c \in categories :
                    c.id = input.category_id /\ c.user_id = input.user_id
     IN  writeCalls' =
           [writeCalls EXCEPT ![r] =
              IF input.category_id /= NULL /\ ~found
              THEN [@ EXCEPT
                      !.pc = "failed",
                      !.error = "Category not found or does not belong to user"]
              ELSE [@ EXCEPT !.pc = "existing"]]
  /\ UNCHANGED <<tables, now, alertsCalls, summaryCalls, budgetSerial>>

\* CreateBudgetExisting looking for a budget of the user and the category
\* whatever its period
CreateBudgetExistingOfAnyPeriod(r) ==
  /\ writeCalls[r].pc = "existing"
  /\ LET input == writeCalls[r].input
         rows  == SelectSeq(budgets,
                            LAMBDA b : /\ b.user_id = input.user_id
                                       /\ b.category_id = input.category_id)
     IN  writeCalls' =
           [writeCalls EXCEPT ![r] =
              IF Len(rows) > 0
              THEN [@ EXCEPT
                      !.pc = "failed",
                      !.error = BudgetAlreadyExists]
              ELSE [@ EXCEPT !.pc = "insert"]]
  /\ UNCHANGED <<tables, now, alertsCalls, summaryCalls, budgetSerial>>

\* the select of the budgets with the input's user, category and period
CreateBudgetExisting(r) ==
  /\ writeCalls[r].pc = "existing"
  /\ writeCalls' =
       [writeCalls EXCEPT ![r] =
          IF Len(ExistingBudgets(writeCalls[r].input)) > 0
          THEN [@ EXCEPT
                  !.pc = "failed",
                  !.error = BudgetAlreadyExists]
          ELSE [@ EXCEPT !.pc = "insert"]]
  /\ UNCHANGED <<tables, now, alertsCalls, summaryCalls, budgetSerial>>

\* the insert and the returned budget, its amount parsed back to a number
CreateBudgetInsert(r) ==
  /\ writeCalls[r].pc = "insert"
  /\ LET input == writeCalls[r].input
         row   == [id          |-> budgetSerial + 1,
                   user_id     |-> input.user_id,
                   category_id |-> input.category_id,
                   amount      |-> StoreAmount(input.amount),
                   period      |-> input.period,
                   created_at  |-> now,
                   updated_at  |-> now]
     IN  /\ budgets' = Append(budgets, row)
         /\ budgetSerial' = budgetSerial + 1
         /\ writeCalls' =
              [writeCalls EXCEPT ![r] =
                 [@ EXCEPT !.pc = "done",
                           !.result = [row EXCEPT
                                         !.amount = parseFloat(row.amount)]]]
  /\ UNCHANGED <<users, categories, transactions, now, alertsCalls,
                 summaryCalls>>

\* updateTransaction(input) of request r up to the completion of the select
\* of the transaction by its id
UpdateTransactionSelect(r, input) ==
  /\ writeCalls[r].pc = "idle"
  /\ LET call == [IdleWriteCall EXCEPT
                    !.op = "updateTransaction", !.input = input]
     IN  writeCalls' =
           [writeCalls EXCEPT ![r] =
              IF \E t \in transactions : t.id = input.id
              THEN [call EXCEPT !.pc = "update"]
              ELSE [call EXCEPT !.pc = "failed",
                                !.error = "Transaction with id "
                                            \o ToString(input.id)
                                            \o " not found"]]
  /\ UNCHANGED <<tables, now, alertsCalls, summaryCalls, budgetSerial>>

\* the row with the fields the input provides written over it
UpdatedTransaction(t, input) ==
  [t EXCEPT
     !.category_id = IF input.category_id /= Absent
                     THEN input.category_id ELSE @,
     !.type        = IF input.type /= AbsentType THEN input.type ELSE @,
     !.amount      = IF input.amount /= Absent
                     THEN StoreAmount(input.amount) ELSE @,
     !.date        = IF input.date /= AbsentDate THEN input.date ELSE @]

\* for each getSummary call that has started and not failed, the Summaries
\* of the tables as they are
SummariesOfLedger ==
  [q \in {q \in Requests :
            summaryCalls[q].pc \in {"income", "expenses", "categories",
                                    "monthly", "done"}} |->
     getSummary(summaryCalls[q].input)]

\* the update of the row with the input's id and the returned transaction;
\* the statement is rejected when category_id references no category, and
\* reading the amount of the returned row throws when no row has the id
\* any more
UpdateTransactionUpdate(r) ==
  /\ writeCalls[r].pc = "update"
  /\ LET input == writeCalls[r].input
         rows  == {t \in transactions : t.id = input.id}
     IN  IF /\ input.category_id \notin {Absent, NULL}
            /\ rows /= {}
            /\ \A c \in categories : c.id /= input.category_id
         THEN /\ writeCalls' =
                   [writeCalls EXCEPT ![r] =
                      [@ EXCEPT
                         !.pc = "failed",
                         !.error = "violates foreign key constraint"]]
              /\ UNCHANGED transactions
         ELSE IF rows = {}
         THEN /\ writeCalls' =
                   [writeCalls EXCEPT ![r] =
                      [@ EXCEPT
                         !.pc = "failed",
                         !.error = "Cannot read properties of undefined"]]
              /\ UNCHANGED transactions
         ELSE LET updated == {UpdatedTransaction(t, input) : t \in rows}
                  row     == CHOOSE t \in updated : TRUE
              IN  /\ transactions' = (transactions \ rows) \cup updated
                  /\ writeCalls' =
                       [writeCalls EXCEPT ![r] =
                          [@ EXCEPT
                             !.pc = "done",
                             !.before = SummariesOfLedger,
                             !.result =
                               [row EXCEPT !.amount = parseFloat(row.amount)]]]
  /\ UNCHANGED <<users, categories, budgets, now, alertsCalls, summaryCalls,
                 budgetSerial>>

\* updateBudget(input) of request r up to the completion of the select of
\* the budget by its id
UpdateBudgetSelect(r, input) ==
  /\ writeCalls[r].pc = "idle"
  /\ LET call == [IdleWriteCall EXCEPT !.op = "updateBudget", !.input = input]
         rows == SelectSeq(budgets, LAMBDA b : b.id = input.id)
     IN  writeCalls' =
           [writeCalls EXCEPT ![r] =
              IF Len(rows) = 0
              THEN [call EXCEPT !.pc = "failed", !.error = "Budget not found"]
              ELSE [call EXCEPT
                      !.existing = rows[1],
                      !.pc = IF input.category_id \in {Absent, NULL}
                             THEN "updateBudget" ELSE "budgetCategory"]]
  /\ UNCHANGED <<tables, now, alertsCalls, summaryCalls, budgetSerial>>

\* the select of the category with the input's id and the user_id of the
\* budget, run for a category_id that is given and not null
UpdateBudgetCategory(r) ==
  /\ writeCalls[r].pc = "budgetCategory"
  /\ LET call  == writeCalls[r]
         found == \E c \in categories :
                    /\ c.id = call.input.category_id
                    /\ c.user_id = call.existing.user_id
     IN  writeCalls' =
           [writeCalls EXCEPT ![r] =
              IF found THEN [call EXCEPT !.pc = "updateBudget"]
              ELSE [call EXCEPT
                      !.pc = "failed",
                      !.error =
                        "Category not found or does not belong to user"]]
  /\ UNCHANGED <<tables, now, alertsCalls, summaryCalls, budgetSerial>>

\* UpdatedBudget keeping the stored category when the input's is null
UpdatedBudgetUnlessNull(b, input, t) ==
  [b EXCEPT
     !.category_id = IF input.category_id \notin {Absent, NULL}
                     THEN input.category_id ELSE @,
     !.amount      = IF input.amount /= Absent
                     THEN StoreAmount(input.amount) ELSE @,
     !.period      = IF input.period /= AbsentType THEN input.period ELSE @,
     !.updated_at  = t]

\* the budget with updateData written over it: updated_at and the fields
\* the input provides
UpdatedBudget(b, input, t) ==
  [b EXCEPT
     !.category_id = IF input.category_id /= Absent
                     THEN input.category_id ELSE @,
     !.amount      = IF input.amount /= Absent
                     THEN StoreAmount(input.amount) ELSE @,
     !.period      = IF input.period /= AbsentType THEN input.period ELSE @,
     !.updated_at  = t]

\* the update of the budget with the input's id and the returned budget;
\* the statement is rejected when category_id references no category, and
\* reading the amount of the returned row throws when no row has the id
\* any more
UpdateBudgetUpdate(r) ==
  /\ writeCalls[r].pc = "updateBudget"
  /\ LET input == writeCalls[r].input
         rows  == SelectSeq(budgets, LAMBDA b : b.id = input.id)
     IN  IF /\ input.category_id \notin {Absent, NULL}
            /\ Len(rows) > 0
            /\ \A c \in categories : c.id /= input.category_id
         THEN /\ writeCalls' =
                   [writeCalls EXCEPT ![r] =
                      [@ EXCEPT
                         !.pc = "failed",
                         !.error = "violates foreign key constraint"]]
              /\ UNCHANGED budgets
         ELSE IF Len(rows) = 0
         THEN /\ writeCalls' =
                   [writeCalls EXCEPT ![r] =
                      [@ EXCEPT
                         !.pc = "failed",
                         !.error = "Cannot read properties of undefined"]]
              /\ UNCHANGED budgets
         ELSE LET row == UpdatedBudget(rows[1], input, now)
              IN  /\ budgets' =
                       [i \in DOMAIN budgets |->
                          IF budgets[i].id = input.id
                          THEN UpdatedBudget(budgets[i], input, now)
                          ELSE budgets[i]]
                  /\ writeCalls' =
                       [writeCalls EXCEPT ![r] =
                          [@ EXCEPT
                             !.pc = "done",
                             !.result =
                               [row EXCEPT !.amount = parseFloat(row.amount)]]]
  /\ UNCHANGED <<users, categories, transactions, now, alertsCalls,
                 summaryCalls, budgetSerial>>

\* DeleteBudget deleting the budget with the id whoever owns it
DeleteBudgetOfAnyUser(r, budgetId, userId) ==
  /\ writeCalls[r].pc = "idle"
  /\ LET deleted == SelectSeq(budgets, LAMBDA b : b.id = budgetId)
     IN  /\ budgets' = SelectSeq(budgets, LAMBDA b : b.id /= budgetId)
         /\ writeCalls' =
              [writeCalls EXCEPT ![r] =
                 [IdleWriteCall EXCEPT
                    !.pc = "done", !.op = "deleteBudget",
                    !.input = [budgetId |-> budgetId, userId |-> userId],
                    !.result = [success |-> Len(deleted) > 0]]]
  /\ UNCHANGED <<users, categories, transactions, now, alertsCalls,
                 summaryCalls, budgetSerial>>

\* deleteBudget(budgetId, userId) of request r: the delete of the budgets
\* with the id and the user_id, success when it returns a row
DeleteBudget(r, budgetId, userId) ==
  /\ writeCalls[r].pc = "idle"
  /\ LET deleted == SelectSeq(budgets, LAMBDA b : /\ b.id = budgetId
                                                 /\ b.user_id = userId)
     IN  /\ budgets' = SelectSeq(budgets, LAMBDA b : ~(/\ b.id = budgetId
                                                      /\ b.user_id = userId))
         /\ writeCalls' =
              [writeCalls EXCEPT ![r] =
                 [IdleWriteCall EXCEPT
                    !.pc = "done", !.op = "deleteBudget",
                    !.input = [budgetId |-> budgetId, userId |-> userId],
                    !.result = [success |-> Len(deleted) > 0]]]
  /\ UNCHANGED <<users, categories, transactions, now, alertsCalls,
                 summaryCalls, budgetSerial>>

\* deleteCategory(categoryId, userId) of request r up to the completion of
\* the select of the category with the id and the user_id
DeleteCategorySelect(r, categoryId, userId) ==
  /\ writeCalls[r].pc = "idle"
  /\ LET call == [IdleWriteCall EXCEPT
                    !.op = "deleteCategory",
                    !.input = [categoryId |-> categoryId, userId |-> userId]]
     IN  writeCalls' =
           [writeCalls EXCEPT ![r] =
              IF \E c \in categories : c.id = categoryId /\ c.user_id = userId
              THEN [call EXCEPT !.pc = "clearTransactions"]
              ELSE [call EXCEPT
                      !.pc = "failed",
                      !.error =
                        "Category not found or does not belong to user"]]
  /\ UNCHANGED <<tables, now, alertsCalls, summaryCalls, budgetSerial>>

\* DeleteCategoryTransactions clearing the category of every transaction of
\* the user
DeleteCategoryTransactionsOfUser(r) ==
  /\ writeCalls[r].pc = "clearTransactions"
  /\ transactions' =
       {IF t.user_id = writeCalls[r].input.userId
        THEN [t EXCEPT !.category_id = NULL] ELSE t : t \in transactions}
  /\ writeCalls' = [writeCalls EXCEPT ![r] = [@ EXCEPT !.pc = "deleteCategory"]]
  /\ UNCHANGED <<users, categories, budgets, now, alertsCalls, summaryCalls,
                 budgetSerial>>

\* the update that sets category_id to null on the transactions of the
\* category
DeleteCategoryTransactions(r) ==
  /\ writeCalls[r].pc = "clearTransactions"
  /\ transactions' =
       {IF t.category_id = writeCalls[r].input.categoryId
        THEN [t EXCEPT !.category_id = NULL] ELSE t : t \in transactions}
  /\ writeCalls' = [writeCalls EXCEPT ![r] = [@ EXCEPT !.pc = "deleteCategory"]]
  /\ UNCHANGED <<users, categories, budgets, now, alertsCalls, summaryCalls,
                 budgetSerial>>

\* the delete of the category with the id and the user_id; with the row the
\* foreign keys clear the category of the transactions that still have it
\* (on delete set null) and delete its budgets (on delete cascade)
DeleteCategoryDelete(r) ==
  /\ writeCalls[r].pc = "deleteCategory"
  /\ LET input   == writeCalls[r].input
         deleted == {c \in categories : /\ c.id = input.categoryId
                                        /\ c.user_id = input.userId}
         gone(id) == \E c \in deleted : c.id = id
     IN  /\ categories' = categories \ deleted
         /\ transactions' =
              {IF gone(t.category_id)
               THEN [t EXCEPT !.category_id = NULL] ELSE t : t \in transactions}
         /\ budgets' = SelectSeq(budgets, LAMBDA b : ~gone(b.category_id))
  /\ writeCalls' =
       [writeCalls EXCEPT ![r] =
          [@ EXCEPT !.pc = "done", !.result = [success |-> TRUE]]]
  /\ UNCHANGED <<users, now, alertsCalls, summaryCalls, budgetSerial>>

\* the response is sent and the next request is served
WriteReturn(r) ==
  /\ writeCalls[r].pc \in {"done", "failed"}
  /\ writeCalls' = [writeCalls EXCEPT ![r] = IdleWriteCall]
  /\ UNCHANGED <<tables, now, alertsCalls, summaryCalls, budgetSerial>>

(***************************************************************************)
(* Ledgers and clocks the calls are run against.                           *)
(***************************************************************************)
MaxTx == 2

MaxBudgets == 2

Users == {1, 2}

\* the categories of user 1
LedgerCategories ==
  {[id |-> 1, user_id |-> 1, name |-> "Food"],
   [id |-> 2, user_id |-> 1, name |-> "Rent"]}

\* transaction rows of user 1, one per <<category_id, type, amount, date>>
\* of the sequence `fields`, with ids 1, 2, ...
TxPool(fields) ==
  {[id          |-> i,
    user_id     |-> 1,
    category_id |-> fields[i][1],
    type        |-> fields[i][2],
    amount      |-> fields[i][3],
    date        |-> fields[i][4]] : i \in 1..Len(fields)}

\* transaction rows, one per <<user_id, category_id, type, amount, date>> of
\* the sequence `fields`, with ids 1, 2, ...
TxPoolOf(fields) ==
  {[id          |-> i,
    user_id     |-> fields[i][1],
    category_id |-> fields[i][2],
    type        |-> fields[i][3],
    amount      |-> fields[i][4],
    date        |-> fields[i][5]] : i \in 1..Len(fields)}

\* the sets of at most MaxTx rows of a pool
Ledgers(pool) == {S \in SUBSET pool : Cardinality(S) <= MaxTx}

\* created_at and updated_at of the budgets stored before the requests:
\* 2024-01-01 00:00
StoredSince == Date(2024, 0, 1, 0)

RECURSIVE Ascending(_)
\* the numbers of S in ascending order
Ascending(S) ==
  IF S = {} THEN <<>>
  ELSE LET m == CHOOSE x \in S : \A y \in S : x <= y
       IN  <<m>> \o Ascending(S \ {m})

\* budget tables of user 1: at most MaxBudgets rows in storage order with ids
\* 1, 2, ..., each a <<category_id, amount, period>> of the sequence `fields`
\* taken in its order, no two for the same category and period
BudgetTables(fields) ==
  {LET pick == Ascending(S)
   IN  [i \in 1..Len(pick) |->
          [id |-> i, user_id |-> 1, category_id |-> fields[pick[i]][1],
           amount |-> fields[pick[i]][2], period |-> fields[pick[i]][3],
           created_at |-> StoredSince, updated_at |-> StoredSince]] :
     S \in {T \in SUBSET (1..Len(fields)) :
              /\ Cardinality(T) <= MaxBudgets
              /\ \A i, j \in T :
                   i /= j => <<fields[i][1], fields[i][3]>>
                               /= <<fields[j][1], fields[j][3]>>}}

\* budget tables of several users: at most MaxBudgets rows in storage order
\* with ids 1, 2, ..., each a <<user_id, category_id, amount, period>> of the
\* sequence `fields` taken in its order, no two for the same user, category
\* and period
BudgetTablesOf(fields) ==
  {LET pick == Ascending(S)
   IN  [i \in 1..Len(pick) |->
          [id |-> i, user_id |-> fields[pick[i]][1],
           category_id |-> fields[pick[i]][2],
           amount |-> fields[pick[i]][3], period |-> fields[pick[i]][4],
           created_at |-> StoredSince, updated_at |-> StoredSince]] :
     S \in {T \in SUBSET (1..Len(fields)) :
              /\ Cardinality(T) <= MaxBudgets
              /\ \A i, j \in T :
                   i /= j => <<fields[i][1], fields[i][2], fields[i][4]>>
                               /= <<fields[j][1], fields[j][2], fields[j][4]>>}}

\* 2024-02-15 10:30, 2024-12-31 23:59:59.999, 2025-01-01 00:00
ClockInstants ==
  {Date(2024, 1, 15, 37800000), Date(2024, 11, 31, EndOfDayMs),
   Date(2025, 0, 1, 0)}

\* the system clock advances between two steps of a call
Tick ==
  /\ \E t \in ClockInstants : now /= t /\ InstantLeq(now, t) /\ now' = t
  /\ UNCHANGED <<tables, alertsCalls, summaryCalls, writes>>

\* expenses and incomes of 0.29 and 4.52, uncategorized and in both
\* categories, all dated 2024-02-15
AlertTxFields ==
  <<<<NULL, "expense", 29, Date(2024, 1, 15, 0)>>,
    <<NULL, "expense", 452, Date(2024, 1, 15, 0)>>,
    <<1, "expense", 29, Date(2024, 1, 15, 0)>>,
    <<1, "expense", 452, Date(2024, 1, 15, 0)>>,
    <<2, "expense", 29, Date(2024, 1, 15, 0)>>,
    <<2, "expense", 452, Date(2024, 1, 15, 0)>>,
    <<NULL, "income", 452, Date(2024, 1, 15, 0)>>,
    <<1, "income", 452, Date(2024, 1, 15, 0)>>>>

\* monthly budgets of 0.00, 0.32 and 5.65, overall and for both categories
AlertBudgetFields ==
  <<<<NULL, 565, "monthly">>, <<1, 32, "monthly">>, <<2, 565, "monthly">>,
    <<NULL, 32, "monthly">>, <<1, 0, "monthly">>, <<2, 32, "monthly">>,
    <<NULL, 0, "monthly">>, <<1, 565, "monthly">>, <<2, 0, "monthly">>>>

\* amounts around the 80% threshold, clock 2024-02-15 10:30
InitAlerts ==
  /\ users = Users
  /\ categories = LedgerCategories
  /\ transactions \in Ledgers(TxPool(AlertTxFields))
  /\ budgets \in BudgetTables(AlertBudgetFields)
  /\ now = Date(2024, 1, 15, 37800000)
  /\ alertsCalls = OnlyFirst(IdleAlertsCall)
  /\ summaryCalls = OnlyFirst(IdleSummaryCall)
  /\ writeCalls = NoWriteCalls
  /\ budgetSerial = Len(budgets)

NextAlerts ==
  \/ \E r \in Requests, u \in Users : AlertsStart(r, u)
  \/ \E r \in Requests : AlertsBudget(r)

SpecAlerts == InitAlerts /\ [][NextAlerts]_vars

\* expenses dated around the boundaries of February 2024, December 2024 and
\* the years 2024 and 2025; the clock starts at any of ClockInstants
PeriodDates ==
  <<Date(2024, 0, 31, EndOfDayMs), Date(2024, 1, 1, 0), Date(2024, 1, 29, 0),
    Date(2024, 1, 29, 43200000), Date(2024, 2, 1, 0),
    Date(2024, 11, 31, 43200000), Date(2023, 11, 31, EndOfDayMs),
    Date(2025, 0, 1, 0)>>

\* an expense of 0.29 in category 1 at each of PeriodDates
PeriodTxFields ==
  [i \in 1..Len(PeriodDates) |-> <<1, "expense", 29, PeriodDates[i]>>]

\* budgets of 0.32, overall and for category 1, monthly and yearly
PeriodBudgetFields ==
  <<<<NULL, 32, "monthly">>, <<1, 32, "yearly">>, <<1, 32, "monthly">>,
    <<NULL, 32, "yearly">>>>

InitPeriods ==
  /\ users = Users
  /\ categories = LedgerCategories
  /\ transactions \in Ledgers(TxPool(PeriodTxFields))
  /\ budgets \in BudgetTables(PeriodBudgetFields)
  /\ now \in ClockInstants
  /\ alertsCalls = OnlyFirst(IdleAlertsCall)
  /\ summaryCalls = OnlyFirst(IdleSummaryCall)
  /\ writeCalls = NoWriteCalls
  /\ budgetSerial = Len(budgets)

NextPeriods ==
  \/ \E r \in Requests, u \in Users : AlertsStart(r, u)
  \/ \E r \in Requests : AlertsBudget(r)
  \/ Tick

SpecPeriods == InitPeriods /\ [][NextPeriods]_vars

\* incomes and expenses dated around the boundaries of February 2023 (28
\* days), February 2024 (29), March 2024 (31) and April 2024 (30)
SummaryTxFields ==
  <<<<1, "income", 30, Date(2024, 1, 1, 0)>>,
    <<NULL, "expense", 10, Date(2024, 1, 29, EndOfDayMs)>>,
    <<1, "expense", 452, Date(2024, 0, 31, EndOfDayMs)>>,
    <<2, "income", 250075, Date(2024, 2, 1, 0)>>,
    <<1, "expense", 9999, Date(2024, 2, 31, 43200000)>>,
    <<NULL, "income", 30, Date(2024, 3, 1, 0)>>,
    <<2, "expense", 10, Date(2024, 3, 30, EndOfDayMs)>>,
    <<1, "income", 30, Date(2024, 4, 1, 0)>>,
    <<1, "expense", 10, Date(2023, 0, 31, EndOfDayMs)>>,
    <<1, "income", 30, Date(2023, 1, 1, 0)>>,
    <<2, "expense", 10, Date(2023, 1, 28, 43200000)>>,
    <<1, "income", 30, Date(2023, 2, 1, 0)>>,
    <<1, "expense", 10, Date(2023, 11, 31, EndOfDayMs)>>>>

\* the inputs the router passes on: month is 1..12 or missing
SummaryInputs ==
  [user_id : Users, period : {"monthly"}, year : {2023, 2024},
   month : {NoMonth, 2, 3, 4}]
  \cup [user_id : Users, period : {"yearly"}, year : {2023, 2024},
        month : {NoMonth, 2}]

InitSummary ==
  /\ users = Users
  /\ categories = LedgerCategories
  /\ transactions \in Ledgers(TxPool(SummaryTxFields))
  /\ budgets = <<>>
  /\ now = Date(2024, 1, 15, 37800000)
  /\ alertsCalls = OnlyFirst(IdleAlertsCall)
  /\ summaryCalls = OnlyFirst(IdleSummaryCall)
  /\ writeCalls = NoWriteCalls
  /\ budgetSerial = Len(budgets)

NextSummary ==
  \/ \E r \in Requests, input \in SummaryInputs : SummaryStart(r, input)
  \/ \E r \in Requests : SummaryIncome(r)
  \/ \E r \in Requests : SummaryExpenses(r)
  \/ \E r \in Requests : SummaryCategories(r)
  \/ \E r \in Requests : SummaryMonthly(r)

SpecSummary == InitSummary /\ [][NextSummary]_vars

\* transactions of both users dated 2024-02-15
ReadsTxFields ==
  <<<<1, 1, "expense", 452, Date(2024, 1, 15, 0)>>,
    <<1, NULL, "income", 30, Date(2024, 1, 15, 0)>>,
    <<2, NULL, "expense", 29, Date(2024, 1, 15, 0)>>>>

\* monthly budgets of both users
ReadsBudgetFields ==
  <<<<1, NULL, 500, "monthly">>, <<1, 1, 452, "monthly">>,
    <<2, NULL, 32, "monthly">>>>

ReadsInputs ==
  [user_id : Users, period : {"monthly"}, year : {2024}, month : {2}]
  \cup [user_id : Users, period : {"yearly"}, year : {2024},
        month : {NoMonth}]
  \cup [user_id : {1}, period : {"monthly"}, year : {2024},
        month : {NoMonth}]

\* the two requests in flight: two getSummary, two getBudgetAlerts, or one
\* of each
RequestKinds ==
  {<<"getSummary", "getSummary">>, <<"getSummary", "getBudgetAlerts">>,
   <<"getBudgetAlerts", "getBudgetAlerts">>}

\* two requests served at once against a ledger nothing writes to, at one
\* instant, their queries interleaved in every order and failing or not
InitReads ==
  /\ users = Users
  /\ categories = LedgerCategories
  /\ transactions \in Ledgers(TxPoolOf(ReadsTxFields))
  /\ budgets \in BudgetTablesOf(ReadsBudgetFields)
  /\ now = Date(2024, 1, 15, 37800000)
  /\ \E kinds \in RequestKinds :
       /\ alertsCalls =
            [r \in Requests |->
               IF kinds[r] = "getBudgetAlerts" THEN IdleAlertsCall
               ELSE [IdleAlertsCall EXCEPT !.pc = "off"]]
       /\ summaryCalls =
            [r \in Requests |->
               IF kinds[r] = "getSummary" THEN IdleSummaryCall
               ELSE [IdleSummaryCall EXCEPT !.pc = "off"]]
  /\ writeCalls = NoWriteCalls
  /\ budgetSerial = Len(budgets)

NextReads ==
  \/ \E r \in Requests, input \in ReadsInputs : SummaryStart(r, input)
  \/ \E r \in Requests : SummaryIncome(r)
  \/ \E r \in Requests : SummaryExpenses(r)
  \/ \E r \in Requests : SummaryCategories(r)
  \/ \E r \in Requests : SummaryMonthly(r)
  \/ \E r \in Requests, error \in DbErrors : SummaryQueryFails(r, error)
  \/ \E r \in Requests, u \in Users : AlertsStart(r, u)
  \/ \E r \in Requests : AlertsBudget(r)
  \/ \E r \in Requests, u \in Users, error \in DbErrors :
       AlertsBudgetsQueryFails(r, u, error)
  \/ \E r \in Requests, error \in DbErrors : AlertsSpendingQueryFails(r, error)

SpecReads == InitReads /\ [][NextReads]_vars

\* a category of each user
WritesCategories ==
  {[id |-> 1, user_id |-> 1, name |-> "Food"],
   [id |-> 2, user_id |-> 2, name |-> "Travel"]}

\* transactions of both users dated 2024-02-15, uncategorized or in a
\* category of their user
WritesTxFields ==
  <<<<1, 1, "expense", 452, Date(2024, 1, 15, 0)>>,
    <<1, NULL, "income", 30, Date(2024, 1, 15, 0)>>,
    <<2, 2, "expense", 29, Date(2024, 1, 15, 0)>>>>

\* monthly budgets of both users, overall or for a category of their user
WritesBudgetFields ==
  <<<<1, NULL, 500, "monthly">>, <<1, 1, 452, "monthly">>,
    <<2, 2, 32, "monthly">>>>

\* createBudget inputs: user 1 for no category and for its own category in
\* both periods, for the category of user 2, and a user that does not
\* exist; amounts of 12.345 and 0.125
CreateBudgetInputs ==
  [user_id : {1}, category_id : {NULL, 1}, amount : {12345},
   period : {"monthly", "yearly"}]
  \cup {[user_id |-> 1, category_id |-> 2, amount |-> 125,
         period |-> "monthly"],
        [user_id |-> 3, category_id |-> NULL, amount |-> 125,
         period |-> "monthly"]}

\* updateTransaction inputs: a category of another user, no category, a
\* category that does not exist, another amount, another type and date, and
\* an id that does not exist
UpdateTransactionInputs ==
  {[id |-> 1, category_id |-> 2, type |-> AbsentType, amount |-> Absent,
    date |-> AbsentDate],
   [id |-> 1, category_id |-> NULL, type |-> AbsentType, amount |-> Absent,
    date |-> AbsentDate],
   [id |-> 2, category_id |-> 9, type |-> AbsentType, amount |-> Absent,
    date |-> AbsentDate],
   [id |-> 3, category_id |-> Absent, type |-> AbsentType, amount |-> 1005,
    date |-> AbsentDate],
   [id |-> 2, category_id |-> Absent, type |-> "expense", amount |-> Absent,
    date |-> Date(2024, 2, 1, 0)],
   [id |-> 9, category_id |-> Absent, type |-> AbsentType, amount |-> 1005,
    date |-> AbsentDate]}

\* two requests, each a createBudget or an updateTransaction, their
\* statements interleaved in every order
InitWrites ==
  /\ users = Users
  /\ categories = WritesCategories
  /\ transactions \in Ledgers(TxPoolOf(WritesTxFields))
  /\ budgets \in BudgetTablesOf(WritesBudgetFields)
  /\ now = Date(2024, 1, 15, 37800000)
  /\ alertsCalls = [r \in Requests |-> [IdleAlertsCall EXCEPT !.pc = "off"]]
  /\ summaryCalls =
       [r \in Requests |-> [IdleSummaryCall EXCEPT !.pc = "off"]]
  /\ writeCalls = [r \in Requests |-> IdleWriteCall]
  /\ budgetSerial = Len(budgets)

NextWrites ==
  \/ \E r \in Requests, input \in CreateBudgetInputs :
       CreateBudgetUser(r, input)
  \/ \E r \in Requests : CreateBudgetCategory(r)
  \/ \E r \in Requests : CreateBudgetExisting(r)
  \/ \E r \in Requests : CreateBudgetInsert(r)
  \/ \E r \in Requests, input \in UpdateTransactionInputs :
       UpdateTransactionSelect(r, input)
  \/ \E r \in Requests : UpdateTransactionUpdate(r)

SpecWrites == InitWrites /\ [][NextWrites]_vars

\* updateBudget inputs: no category, the other period, another amount, the
\* category of user 1 with the other period, the category of user 2, and
\* an id that does not exist
UpdateBudgetInputs ==
  {[id |-> 2, category_id |-> NULL, amount |-> Absent, period |-> AbsentType],
   [id |-> 1, category_id |-> Absent, amount |-> Absent, period |-> "yearly"],
   [id |-> 1, category_id |-> Absent, amount |-> 1005, period |-> AbsentType],
   [id |-> 2, category_id |-> 1, amount |-> Absent, period |-> "yearly"],
   [id |-> 1, category_id |-> 2, amount |-> Absent, period |-> AbsentType],
   [id |-> 9, category_id |-> Absent, amount |-> 1005, period |-> AbsentType]}

\* a transaction of each user in the category of its user, dated 2024-02-15
LedgerTxFields ==
  <<<<1, 1, "expense", 452, Date(2024, 1, 15, 0)>>,
    <<2, 2, "expense", 29, Date(2024, 1, 15, 0)>>>>

\* the updateTransaction inputs that only set the category
CategoryInputs ==
  {input \in UpdateTransactionInputs :
     input.amount = Absent /\ input.date = AbsentDate}

\* <<id, userId>> of deleteBudget and deleteCategory: ids with their owner
\* or not, and an id that does not exist
DeleteInputs == {<<1, 1>>, <<1, 2>>, <<2, 1>>, <<2, 2>>, <<9, 1>>}

\* one request after the other, each a createBudget, updateBudget,
\* deleteBudget, updateTransaction or deleteCategory, over a budget table
\* that is empty or holds budgets created before; no createBudget starts
\* once the serial has reached MaxBudgets
InitLedger ==
  /\ users = Users
  /\ categories = WritesCategories
  /\ transactions \in Ledgers(TxPoolOf(LedgerTxFields))
  /\ budgets \in BudgetTablesOf(WritesBudgetFields)
  /\ now = Date(2024, 1, 15, 37800000)
  /\ alertsCalls = [r \in Requests |-> [IdleAlertsCall EXCEPT !.pc = "off"]]
  /\ summaryCalls =
       [r \in Requests |-> [IdleSummaryCall EXCEPT !.pc = "off"]]
  /\ writeCalls = OnlyFirst(IdleWriteCall)
  /\ budgetSerial = Len(budgets)

NextLedger ==
  \/ \E r \in Requests, input \in CreateBudgetInputs :
       budgetSerial < MaxBudgets /\ CreateBudgetUser(r, input)
  \/ \E r \in Requests : CreateBudgetCategory(r)
  \/ \E r \in Requests : CreateBudgetExisting(r)
  \/ \E r \in Requests : CreateBudgetInsert(r)
  \/ \E r \in Requests, input \in UpdateBudgetInputs :
       UpdateBudgetSelect(r, input)
  \/ \E r \in Requests : UpdateBudgetCategory(r)
  \/ \E r \in Requests : UpdateBudgetUpdate(r)
  \/ \E r \in Requests, d \in DeleteInputs : DeleteBudget(r, d[1], d[2])
  \/ \E r \in Requests, input \in CategoryInputs :
       UpdateTransactionSelect(r, input)
  \/ \E r \in Requests : UpdateTransactionUpdate(r)
  \/ \E r \in Requests, d \in DeleteInputs :
       DeleteCategorySelect(r, d[1], d[2])
  \/ \E r \in Requests : DeleteCategoryTransactions(r)
  \/ \E r \in Requests : DeleteCategoryDelete(r)
  \/ \E r \in Requests : WriteReturn(r)

SpecLedger == InitLedger /\ [][NextLedger]_vars

(***************************************************************************)
(* Properties of getBudgetAlerts                                           *)
(***************************************************************************)
AlertsDone == alertsCall.pc = "done"

\* the budgets the finished call evaluated, by position
Evaluated == 1..Len(alertsCall.evals)

\* the returned list has an alert for the evaluated budget j
HasAlert(j) ==
  \E k \in 1..Len(alertsCall.result) :
    alertsCall.result[k].budget_id = alertsCall.evals[j].budget.budget_id

\* (spent / budget) * 100 in hundredths of a percent, rounded half-up, for
\* amounts in cents; 0 when the budget is not positive
HalfUpPercentage(spent, budget) ==
  IF budget > 0 THEN (20000 * spent + budget) \div (2 * budget) ELSE 0

\* C1: the returned list has an alert for a budget exactly when its
\* percentage_used, (spent_amount / budget_amount) * 100 rounded to 2
\* decimals, is at least 80.00
C1_AlertIffAtLeast80 ==
  AlertsDone =>
    \A j \in Evaluated :
      HasAlert(j) <=>
        HalfUpPercentage(alertsCall.evals[j].total_spent,
                         alertsCall.evals[j].budget.budget_amount) >= 8000

\* C3: the returned alerts are in descending order of percentage_used
C3_SortedDescending ==
  AlertsDone =>
    \A k \in 1..(Len(alertsCall.result) - 1) :
      FCmp(alertsCall.result[k].percentage_used,
           alertsCall.result[k + 1].percentage_used) >= 0

\* C3 witness: two alerts were pushed in ascending order and returned
C3_Witness ==
  /\ AlertsDone
  /\ Len(alertsCall.result) >= 2
  /\ FCmp(alertsCall.alerts[1].percentage_used,
          alertsCall.alerts[2].percentage_used) < 0

\* C7: every alert carries the budget's limit, the computed spend and their
\* ratio in percent rounded half-up to 2 decimals; a budget that is not
\* positive produces no alert
C7_PercentageRoundedHalfUp ==
  AlertsDone =>
    \A j \in Evaluated :
      LET ev == alertsCall.evals[j]
      IN  /\ ev.budget.budget_amount <= 0 => ~HasAlert(j)
          /\ \A k \in 1..Len(alertsCall.result) :
               alertsCall.result[k].budget_id = ev.budget.budget_id =>
                 /\ alertsCall.result[k].budget_amount
                      = parseFloat(ev.budget.budget_amount)
                 /\ alertsCall.result[k].spent_amount
                      = parseFloat(ev.total_spent)
                 /\ alertsCall.result[k].percentage_used
                      = parseFloat(HalfUpPercentage(ev.total_spent,
                                                    ev.budget.budget_amount))

\* C1 failing input: a budget of 5.65 with 4.52 spent, exactly 80%, is
\* evaluated and gets no alert
C1_Witness ==
  /\ AlertsDone
  /\ \E j \in Evaluated :
       /\ alertsCall.evals[j].budget.budget_amount = 565
       /\ alertsCall.evals[j].total_spent = 452
       /\ ~HasAlert(j)

\* C7 failing input: a budget of 0.32 with 0.29 spent, 90.625%, is reported
\* with percentage_used 90.62
C7_Witness ==
  /\ AlertsDone
  /\ \E k \in 1..Len(alertsCall.result) :
       /\ alertsCall.result[k].budget_amount = parseFloat(32)
       /\ alertsCall.result[k].spent_amount = parseFloat(29)
       /\ alertsCall.result[k].percentage_used = parseFloat(9062)

\* the transaction t is of the kind and category the budget row b sums
InScope(t, b) ==
  /\ t.user_id = alertsCall.userId
  /\ t.type = "expense"
  /\ (b.category_id /= NULL => t.category_id = b.category_id)

\* the instant d lies in the calendar month (monthly) or calendar year
\* (yearly) that contains the instant t
InPeriod(d, period, t) ==
  /\ CivilFromDays(d[1]).y = CivilFromDays(t[1]).y
  /\ (period = "monthly" => CivilFromDays(d[1]).m = CivilFromDays(t[1]).m)

\* first instant of the period containing t
PeriodStart(period, t) ==
  LET c == CivilFromDays(t[1])
  IN  <<DaysFromCivil(c.y, IF period = "monthly" THEN c.m ELSE 1, 1), 0>>

\* last millisecond of the period containing t: the one before the first
\* instant of the next period
PeriodEnd(period, t) ==
  LET c == CivilFromDays(t[1])
      nextStart ==
        IF period = "monthly" /\ c.m < 12
        THEN DaysFromCivil(c.y, c.m + 1, 1)
        ELSE DaysFromCivil(c.y + 1, 1, 1)
  IN  <<nextStart - 1, MsPerDay - 1>>

\* C2: the date range of an evaluation runs from the first instant of the
\* current month (or year) through 23:59:59.999 of its last day, so an
\* expense at any time on the last day is counted
C2_RangeThroughEndOfLastDay ==
  \A j \in Evaluated :
    LET ev == alertsCall.evals[j]
    IN  /\ ev.range.startDate = PeriodStart(ev.budget.period, ev.now)
        /\ ev.range.endDate = PeriodEnd(ev.budget.period, ev.now)
        /\ \A t \in transactions :
             (/\ InScope(t, ev.budget)
              /\ t.date[1] = PeriodEnd(ev.budget.period, ev.now)[1])
             => t.id \in ev.matched

\* C2 failing input: a monthly budget evaluated in February 2024 does not
\* count an expense of 2024-02-29 12:00
C2_Witness ==
  \E j \in Evaluated :
    LET ev == alertsCall.evals[j]
    IN  /\ ev.budget.period = "monthly"
        /\ ev.now = Date(2024, 1, 15, 37800000)
        /\ \E t \in transactions :
             /\ InScope(t, ev.budget)
             /\ t.date = Date(2024, 1, 29, 43200000)
             /\ t.id \notin ev.matched

\* C4: spent_amount of a budget is the sum of the user's expenses dated in
\* the current period, of that category for a category budget and of every
\* category for an overall budget; an overall budget's alert has no
\* category_name
C4_CategoryScoping ==
  /\ \A j \in Evaluated :
       LET ev == alertsCall.evals[j]
       IN  ev.total_spent =
             SumAmounts({t \in transactions :
                           /\ InScope(t, ev.budget)
                           /\ InPeriod(t.date, ev.budget.period, ev.now)})
  /\ \A j \in Evaluated, k \in 1..Len(alertsCall.result) :
       /\ alertsCall.evals[j].budget.category_id = NULL
       /\ alertsCall.result[k].budget_id = alertsCall.evals[j].budget.budget_id
       => alertsCall.result[k].category_name = NULLNAME

\* C4 failing input: an overall budget whose evaluation leaves out an
\* expense of the current period
C4_Witness ==
  \E j \in Evaluated :
    LET ev == alertsCall.evals[j]
    IN  /\ ev.budget.category_id = NULL
        /\ \E t \in transactions :
             /\ InScope(t, ev.budget)
             /\ InPeriod(t.date, ev.budget.period, ev.now)
             /\ t.id \notin ev.matched

\* C5: income transactions never count: the returned alerts are those of
\* the same ledger without its income transactions, and no evaluation
\* matches an income transaction
C5_IncomeNeverCounts ==
  AlertsDone =>
    /\ alertsCall.result =
         getBudgetAlerts({t \in transactions : t.type /= "income"},
                         alertsCall.userId, now)
    /\ \A j \in Evaluated, t \in transactions :
         t.type = "income" => t.id \notin alertsCall.evals[j].matched

\* C5 witness: a budget without an alert that would reach 80% if an income
\* transaction of its category were counted as spending
C5_Witness ==
  /\ AlertsDone
  /\ \E j \in Evaluated :
       LET ev == alertsCall.evals[j]
           incomes == {t \in transactions :
                         /\ t.user_id = alertsCall.userId
                         /\ t.type = "income"
                         /\ (ev.budget.category_id /= NULL
                               => t.category_id = ev.budget.category_id)}
       IN  /\ ~HasAlert(j)
           /\ ev.total_spent > 0
           /\ incomes /= {}
           /\ HalfUpPercentage(ev.total_spent + SumAmounts(incomes),
                               ev.budget.budget_amount) >= 8000

\* C6: an expense dated outside the current period is excluded from the
\* budget's spent_amount, even if it is of the same user and category
C6_OutOfPeriodExcluded ==
  \A j \in Evaluated :
    LET ev == alertsCall.evals[j]
    IN  /\ \A t \in transactions :
             (t.id \in ev.matched)
               => InPeriod(t.date, ev.budget.period, ev.now)
        /\ ev.total_spent =
             SumAmounts({t \in transactions : t.id \in ev.matched})

\* C6 witness: a monthly category budget counts one expense and leaves out
\* an expense of the same user and category dated in another month
C6_Witness ==
  \E j \in Evaluated :
    LET ev == alertsCall.evals[j]
    IN  /\ ev.budget.period = "monthly"
        /\ ev.budget.category_id /= NULL
        /\ ev.matched /= {}
        /\ \E t \in transactions :
             /\ InScope(t, ev.budget)
             /\ ~InPeriod(t.date, ev.budget.period, ev.now)
             /\ t.id \notin ev.matched

(***************************************************************************)
(* Properties of getSummary                                                *)
(***************************************************************************)
SummaryDone == summaryCall.pc = "done"

\* the date d lies in the calendar month (monthly) or year (yearly) the
\* input names
InSummaryPeriod(d, input) ==
  /\ CivilFromDays(d[1]).y = input.year
  /\ (input.period = "monthly" => CivilFromDays(d[1]).m = input.month)

\* the input's user's transactions of the given type dated in the period
PeriodTransactions(input, type) ==
  {t \in transactions :
     /\ t.user_id = input.user_id
     /\ t.type = type
     /\ InSummaryPeriod(t.date, input)}

\* the binary64 number nearest to c / 100, for c of either sign
DecimalDouble(c) ==
  IF c < 0 THEN [parseFloat(-c) EXCEPT !.sign = -1] ELSE parseFloat(c)

\* C8: a monthly getSummary without a month fails with the message that the
\* month is required, before any query, and returns no Summary; nothing
\* else fails, so a yearly getSummary without a month does not
C8_MonthRequired ==
  /\ (/\ summaryCall.pc /= "idle"
      /\ summaryCall.input.period = "monthly"
      /\ summaryCall.input.month = NoMonth)
     => (/\ summaryCall.pc = "failed"
         /\ summaryCall.error = "Month is required for monthly summaries"
         /\ summaryCall.queries = 0
         /\ summaryCall.result = <<>>)
  /\ summaryCall.pc = "failed"
     => (/\ summaryCall.input.period = "monthly"
         /\ summaryCall.input.month = NoMonth)

\* C8 witness: a monthly call without a month has failed over a ledger that
\* holds transactions of its user
C8_Witness ==
  /\ summaryCall.pc = "failed"
  /\ summaryCall.input.month = NoMonth
  /\ \E t \in transactions : t.user_id = summaryCall.input.user_id

\* C9: in a returned Summary total_income and total_expenses are the sums
\* of the user's income and expense amounts in the period and net_income
\* is exactly their difference as a 2-decimal amount
C9_NetIncomeExact ==
  SummaryDone =>
    LET income   == SumAmounts(PeriodTransactions(summaryCall.input, "income"))
        expenses == SumAmounts(PeriodTransactions(summaryCall.input, "expense"))
    IN  /\ summaryCall.result.total_income = DecimalDouble(income)
        /\ summaryCall.result.total_expenses = DecimalDouble(expenses)
        /\ summaryCall.result.net_income = DecimalDouble(income - expenses)

\* C9 failing input: income 0.30 and expenses 0.10 return a net_income
\* that is not 0.20
C9_Witness ==
  /\ SummaryDone
  /\ summaryCall.result.total_income = parseFloat(30)
  /\ summaryCall.result.total_expenses = parseFloat(10)
  /\ summaryCall.result.net_income /= parseFloat(20)

\* the category rows of the returned Summary, as a set
ReturnedGroups ==
  {summaryCall.result.categories[i] :
     i \in 1..Len(summaryCall.result.categories)}

\* C10: a monthly Summary counts a transaction of the user exactly when it
\* is dated in the calendar month asked for: the totals and the category
\* breakdown are those of the transactions of that month
C10_MonthlyFilterExact ==
  SummaryDone /\ summaryCall.input.period = "monthly" =>
    LET input   == summaryCall.input
        inMonth == PeriodTransactions(input, "income")
                     \cup PeriodTransactions(input, "expense")
    IN  /\ summaryCall.result.total_income
             = DecimalDouble(SumAmounts(PeriodTransactions(input, "income")))
        /\ summaryCall.result.total_expenses
             = DecimalDouble(SumAmounts(PeriodTransactions(input, "expense")))
        /\ Len(summaryCall.result.categories) = Cardinality(ReturnedGroups)
        /\ ReturnedGroups =
             {[category_id       |-> c,
               category_name     |-> JoinedCategoryName(c),
               total_amount      |->
                 DecimalDouble(SumAmounts({t \in inMonth : t.category_id = c})),
               transaction_count |->
                 Cardinality({t \in inMonth : t.category_id = c})] :
                c \in {t.category_id : t \in inMonth}}

\* C10 witness: the summary of February 2023 counts the expense of
\* 2023-02-28 12:00 and not the income of 2023-03-01
C10_Witness ==
  /\ SummaryDone
  /\ summaryCall.input = [user_id |-> 1, period |-> "monthly", year |-> 2023,
                          month |-> 2]
  /\ \E t \in transactions : t.date = Date(2023, 1, 28, 43200000)
  /\ \E t \in transactions : t.date = Date(2023, 2, 1, 0)
  /\ summaryCall.result.total_expenses = parseFloat(10)
  /\ summaryCall.result.total_income = FZero

\* the input's user's transactions of either type dated in the period
InRange(input) ==
  PeriodTransactions(input, "income") \cup PeriodTransactions(input, "expense")

C12_OneEntryPerCategory ==
  SummaryDone =>
    /\ Len(summaryCall.result.categories) = Cardinality(ReturnedGroups)
    /\ {e.category_id : e \in ReturnedGroups}
         = {t.category_id : t \in InRange(summaryCall.input)}
    /\ Cardinality({e.category_id : e \in ReturnedGroups})
         = Cardinality(ReturnedGroups)
    /\ \A e \in ReturnedGroups :
         IF e.category_id = NULL THEN e.category_name = NULLNAME
         ELSE \E c \in categories :
                c.id = e.category_id /\ c.name = e.category_name

\* C12 witness: a Summary with an entry for the uncategorized transactions
\* and an entry for a category, while another category has none
C12_Witness ==
  /\ SummaryDone
  /\ {e.category_id : e \in ReturnedGroups} = {NULL, 1}
  /\ \E c \in categories :
       c.user_id = summaryCall.input.user_id /\ c.id = 2

\* C13: monthly_data of a yearly Summary has the 12 entries of the months
\* 1..12 in ascending order, each with the sum of the user's incomes and the
\* sum of the user's expenses dated in that month of the year, 0 without any
C13_MonthlyDataComplete ==
  SummaryDone /\ summaryCall.input.period = "yearly" =>
    LET data == summaryCall.result.monthly_data
        Of(m, type) ==
          {t \in PeriodTransactions(summaryCall.input, type) :
             CivilFromDays(t.date[1]).m = m}
    IN  /\ data.defined
        /\ Len(data.entries) = 12
        /\ \A m \in 1..12 :
             /\ data.entries[m].month = m
             /\ data.entries[m].income
                  = DecimalDouble(SumAmounts(Of(m, "income")))
             /\ data.entries[m].expenses
                  = DecimalDouble(SumAmounts(Of(m, "expense")))

\* C13 witness: a yearly Summary with an income and an expense in February
\* and nothing in March
C13_Witness ==
  /\ SummaryDone
  /\ summaryCall.input.period = "yearly"
  /\ summaryCall.result.monthly_data.entries[2].income = parseFloat(30)
  /\ summaryCall.result.monthly_data.entries[2].expenses = parseFloat(10)
  /\ summaryCall.result.monthly_data.entries[3].income = FZero
  /\ summaryCall.result.monthly_data.entries[3].expenses = FZero

\* C14: a monthly Summary has no monthly_data at all
C14_NoMonthlyDataForMonthly ==
  SummaryDone /\ summaryCall.input.period = "monthly" =>
    ~summaryCall.result.monthly_data.defined

\* C14 witness: a monthly Summary over transactions of the month
C14_Witness ==
  /\ SummaryDone
  /\ summaryCall.input.period = "monthly"
  /\ InRange(summaryCall.input) /= {}
  /\ ~summaryCall.result.monthly_data.defined

\* the user has no category, no transaction and no budget
NoRecords(userId) ==
  /\ \A c \in categories : c.user_id /= userId
  /\ \A t \in transactions : t.user_id /= userId
  /\ \A i \in DOMAIN budgets : budgets[i].user_id /= userId

\* C15: for a user without records getSummary returns total_income 0,
\* total_expenses 0, net_income 0 and no categories, with 12 monthly entries
\* of 0 and 0 when the period is yearly, and fails only if a query does; for
\* a user without budgets getBudgetAlerts runs no spending query and
\* returns []
C15_EmptyResults ==
  \A r \in Requests :
    /\ (/\ summaryCalls[r].pc \in {"done", "failed"}
        /\ NoRecords(summaryCalls[r].input.user_id)
        /\ getDateRange(summaryCalls[r].input).ok
        /\ summaryCalls[r].thrown = "") =>
         /\ summaryCalls[r].pc = "done"
         /\ summaryCalls[r].result.total_income = FZero
         /\ summaryCalls[r].result.total_expenses = FZero
         /\ summaryCalls[r].result.net_income = FZero
         /\ summaryCalls[r].result.categories = <<>>
         /\ (summaryCalls[r].input.period = "yearly" =>
               /\ summaryCalls[r].result.monthly_data.defined
               /\ summaryCalls[r].result.monthly_data.entries
                    = [m \in 1..12 |->
                         [month |-> m, income |-> FZero, expenses |-> FZero]])
    /\ (/\ alertsCalls[r].pc \in {"loop", "done", "failed"}
        /\ BudgetsQuery(alertsCalls[r].userId) = <<>>
        /\ alertsCalls[r].thrown = "") =>
         /\ alertsCalls[r].pc = "done"
         /\ alertsCalls[r].queries = 1
         /\ alertsCalls[r].result = <<>>

\* C15 witness: a user without records has got a yearly Summary and a list
\* of alerts while the other user has transactions and budgets
C15_Witness ==
  /\ NoRecords(2)
  /\ transactions /= {}
  /\ budgets /= <<>>
  /\ summaryCalls[1].pc = "done"
  /\ summaryCalls[1].input.user_id = 2
  /\ summaryCalls[1].input.period = "yearly"
  /\ Len(summaryCalls[1].result.monthly_data.entries) = 12
  /\ alertsCalls[2].pc = "done"
  /\ alertsCalls[2].userId = 2
  /\ alertsCalls[2].result = <<>>

\* C17: getSummary and getBudgetAlerts change none of the users, categories,
\* transactions and budgets, whatever the input and whether they return or
\* throw
C17_ReadOnly == [][UNCHANGED tables]_vars

\* C17 witness: over a ledger with transactions and budgets one call has
\* returned alerts, one has thrown the month error or a query's error
C17_Witness ==
  /\ transactions /= {}
  /\ budgets /= <<>>
  /\ summaryCalls[1].pc = "failed"
  /\ alertsCalls[2].pc = "done"
  /\ alertsCalls[2].result /= <<>>

\* C18: with the ledger and the clock unchanged, however the queries of two
\* requests interleave, each request ends as it does when it runs alone:
\* with one of the Summaries, the list of alerts or the error of the call
\* on its own
C18_InterleavingInvisible ==
  \A r \in Requests :
    /\ summaryCalls[r].pc = "done" =>
         summaryCalls[r].result \in getSummary(summaryCalls[r].input)
    /\ (summaryCalls[r].pc = "failed" /\ summaryCalls[r].thrown = "") =>
         /\ ~getDateRange(summaryCalls[r].input).ok
         /\ summaryCalls[r].error = getDateRange(summaryCalls[r].input).error
    /\ alertsCalls[r].pc = "done" =>
         alertsCalls[r].result
           = getBudgetAlerts(transactions, alertsCalls[r].userId, now)

\* C18 witness: the first request has returned the Summary of user 1 with
\* expenses while the second, for user 2, is between its queries
C18_Witness ==
  /\ summaryCalls[1].pc = "done"
  /\ summaryCalls[1].input.user_id = 1
  /\ summaryCalls[1].result.total_expenses = parseFloat(452)
  /\ summaryCalls[2].pc = "categories"
  /\ summaryCalls[2].input.user_id = 2
  /\ summaryCalls[2].totalExpensesResult = 29

\* C19: when a query of getSummary or getBudgetAlerts rejects, the budgets
\* query or the spending query of a later budget included, the call throws
\* that error, returns nothing, and runs no further query
C19_ReadFailurePropagates ==
  [][\A r \in Requests :
       /\ summaryCalls'[r].thrown /= "" =>
            /\ summaryCalls'[r].pc = "failed"
            /\ summaryCalls'[r].error = summaryCalls'[r].thrown
            /\ summaryCalls'[r].result = <<>>
       /\ summaryCalls[r].thrown /= "" => summaryCalls'[r] = summaryCalls[r]
       /\ alertsCalls'[r].thrown /= "" =>
            /\ alertsCalls'[r].pc = "failed"
            /\ alertsCalls'[r].error = alertsCalls'[r].thrown
            /\ alertsCalls'[r].result = <<>>
       /\ alertsCalls[r].thrown /= "" => alertsCalls'[r] = alertsCalls[r]]_vars

\* C19 witness: getSummary has failed on its fourth query and
\* getBudgetAlerts on the spending query of its second budget
C19_Witness ==
  /\ summaryCalls[1].pc = "failed"
  /\ summaryCalls[1].queries = 4
  /\ summaryCalls[1].error \in DbErrors
  /\ alertsCalls[2].pc = "failed"
  /\ alertsCalls[2].queries = 3
  /\ alertsCalls[2].error \in DbErrors

\* the names of the user's categories, and no name
OwnNames(userId) ==
  {c.name : c \in {c \in categories : c.user_id = userId}} \cup {NULLNAME}

\* getSummary inputs of the user: February 2024 and the year 2024
IsolationInputs(userId) ==
  {[user_id |-> userId, period |-> "monthly", year |-> 2024, month |-> 2],
   [user_id |-> userId, period |-> "yearly", year |-> 2024,
    month |-> NoMonth]}

\* the category names in what getSummary and getBudgetAlerts return to the
\* user
ReturnedNames(userId) ==
  {s.categories[i].category_name :
     <<s, i>> \in {<<s, i>> \in UNION {getSummary(input) \X (1..2) :
                                        input \in IsolationInputs(userId)} :
                     i <= Len(s.categories)}}
  \cup {getBudgetAlerts(transactions, userId, now)[i].category_name :
          i \in DOMAIN getBudgetAlerts(transactions, userId, now)}

\* C16: no category name of another user appears in what getSummary and
\* getBudgetAlerts return to a user: every category name returned to a user
\* is null or the name of a category of that user, so that rows of other
\* users cannot change what the user gets
C16_UserIsolation ==
  \A u \in Users : ReturnedNames(u) \subseteq OwnNames(u)

\* C16 witness: an updateTransaction has returned and the yearly Summary of
\* user 1 has an entry named after the category of user 2
C16_Witness ==
  /\ \E r \in Requests :
       /\ writeCalls[r].op = "updateTransaction"
       /\ writeCalls[r].pc = "done"
       /\ writeCalls[r].result.user_id = 1
       /\ writeCalls[r].result.category_id = 2
  /\ \A c \in categories : c.id = 2 => c.user_id = 2
  /\ "Travel" \in ReturnedNames(1)

\* C20: a createBudget for a user, category (null matching null) and period
\* for which a budget is stored fails with the 'Budget already exists'
\* error and inserts nothing; it fails with that error only if such a
\* budget is stored, so not because of a budget for the other period, and
\* otherwise fails only for a missing user or a category that is not the
\* user's
C20_DuplicateBudgetRejected ==
  [][\A r \in Requests :
       LET before == writeCalls[r]
           call   == writeCalls'[r]
       IN  call.op = "createBudget" =>
             /\ (call.existed /\ call.pc \in {"done", "failed"}) =>
                  (call.pc = "failed" /\ call.error = BudgetAlreadyExists)
             /\ (before.existed /\ call /= before) => budgets' = budgets
             /\ call.pc = "failed" =>
                  \/ /\ call.error = BudgetAlreadyExists
                     /\ \E i \in DOMAIN budgets' :
                          /\ budgets'[i].user_id = call.input.user_id
                          /\ budgets'[i].category_id = call.input.category_id
                          /\ budgets'[i].period = call.input.period
                  \/ /\ call.error = "User not found"
                     /\ call.input.user_id \notin users'
                  \/ /\ call.error
                          = "Category not found or does not belong to user"
                     /\ call.input.category_id /= NULL
                     /\ \A c \in categories' :
                          ~(/\ c.id = call.input.category_id
                            /\ c.user_id = call.input.user_id)]_vars

\* C20 witness: over a table holding the monthly budget of user 1 for
\* category 1, a createBudget for the same user, category and period has
\* failed and one for the yearly period has inserted its budget
C20_Witness ==
  /\ writeCalls[1].op = "createBudget"
  /\ writeCalls[1].pc = "failed"
  /\ writeCalls[1].error = BudgetAlreadyExists
  /\ writeCalls[1].input.category_id = 1
  /\ writeCalls[1].input.period = "monthly"
  /\ writeCalls[2].op = "createBudget"
  /\ writeCalls[2].pc = "done"
  /\ writeCalls[2].input.user_id = writeCalls[1].input.user_id
  /\ writeCalls[2].input.category_id = 1
  /\ writeCalls[2].input.period = "yearly"
  /\ Len(budgets) = 2
  /\ budgets[2].period = "yearly"
  /\ budgets[2].amount = 1235

\* C26: the budgets of one getBudgetAlerts call are all measured against
\* the same instant, so two budgets of the same period of one call have the
\* same date range
C26_OneInstantPerCall ==
  \A r \in Requests :
    \A i, j \in DOMAIN alertsCalls[r].evals :
      /\ alertsCalls[r].evals[i].now = alertsCalls[r].evals[j].now
      /\ (alertsCalls[r].evals[i].budget.period
            = alertsCalls[r].evals[j].budget.period =>
          alertsCalls[r].evals[i].range = alertsCalls[r].evals[j].range)

\* C26 witness: a call has returned after measuring one monthly budget
\* against December 2024 and the next against January 2025
C26_Witness ==
  /\ AlertsDone
  /\ Len(alertsCall.evals) = 2
  /\ alertsCall.evals[1].budget.period = "monthly"
  /\ alertsCall.evals[2].budget.period = "monthly"
  /\ alertsCall.evals[1].range.startDate = Date(2024, 11, 1, 0)
  /\ alertsCall.evals[2].range.startDate = Date(2025, 0, 1, 0)

RECURSIVE CountSum(_, _)
\* the sum of transaction_count over the entries k.. of a categories list
CountSum(entries, k) ==
  IF k > Len(entries) THEN 0
  ELSE entries[k].transaction_count + CountSum(entries, k + 1)

SnapshotInputs ==
  {[user_id |-> 1, period |-> "monthly", year |-> 2024, month |-> 2],
   [user_id |-> 1, period |-> "yearly", year |-> 2024, month |-> NoMonth]}

\* request 1 is a getSummary and request 2 an updateTransaction, the update
\* running between any two queries of the summary
InitSnapshot ==
  /\ users = Users
  /\ categories = WritesCategories
  /\ transactions \in Ledgers(TxPoolOf(WritesTxFields))
  /\ budgets = <<>>
  /\ now = Date(2024, 1, 15, 37800000)
  /\ alertsCalls = [r \in Requests |-> [IdleAlertsCall EXCEPT !.pc = "off"]]
  /\ summaryCalls = OnlyFirst(IdleSummaryCall)
  /\ writeCalls =
       [r \in Requests |->
          IF r = 2 THEN IdleWriteCall ELSE [IdleWriteCall EXCEPT !.pc = "off"]]
  /\ budgetSerial = 0

NextSnapshot ==
  \/ \E r \in Requests, input \in SnapshotInputs : SummaryStart(r, input)
  \/ \E r \in Requests : SummaryIncome(r)
  \/ \E r \in Requests : SummaryExpenses(r)
  \/ \E r \in Requests : SummaryCategories(r)
  \/ \E r \in Requests : SummaryMonthly(r)
  \/ \E r \in Requests, input \in UpdateTransactionInputs :
       UpdateTransactionSelect(r, input)
  \/ \E r \in Requests : UpdateTransactionUpdate(r)

SpecSnapshot == InitSnapshot /\ [][NextSnapshot]_vars

\* C21: deleteBudget(budgetId, userId) removes the budget and returns
\* success = true exactly when a budget with that id owned by that user is
\* stored; otherwise it returns success = false and leaves the budgets as
\* they are; the budgets other than that one are untouched in every case
C21_DeleteBudgetFrame ==
  [][\A r \in Requests :
       (writeCalls[r].pc = "idle" /\ writeCalls'[r].op = "deleteBudget") =>
         LET input == writeCalls'[r].input
             owned == \E i \in DOMAIN budgets :
                        /\ budgets[i].id = input.budgetId
                        /\ budgets[i].user_id = input.userId
         IN  /\ writeCalls'[r].pc = "done"
             /\ writeCalls'[r].result = [success |-> owned]
             /\ budgets' = SelectSeq(budgets,
                       LAMBDA b : ~owned \/ b.id /= input.budgetId)
             /\ UNCHANGED <<users, categories, transactions>>]_vars

\* C21 witness: deleteBudget has returned success = false for a budget of
\* another user, which is still stored
C21_Witness ==
  /\ writeCalls[1].op = "deleteBudget"
  /\ writeCalls[1].pc = "done"
  /\ writeCalls[1].result = [success |-> FALSE]
  /\ \E i \in DOMAIN budgets :
       /\ budgets[i].id = writeCalls[1].input.budgetId
       /\ budgets[i].user_id /= writeCalls[1].input.userId

\* C22: deleteCategory(categoryId, userId) on a category of the user deletes
\* it and sets category_id to null on the transactions that have it,
\* changing no other category_id and no amount; when no category with the
\* id belongs to the user it throws 'Category not found or does not belong
\* to user' and changes neither categories nor transactions
C22_DeleteCategoryFrame ==
  [][\A r \in Requests :
       (writeCalls'[r].op = "deleteCategory"
          /\ writeCalls'[r] /= writeCalls[r]) =>
         LET call  == writeCalls'[r]
             X     == call.input.categoryId
             owned == \E c \in categories :
                        c.id = X /\ c.user_id = call.input.userId
         IN  IF call.pc = "failed"
             THEN /\ ~owned
                  /\ call.error
                       = "Category not found or does not belong to user"
                  /\ UNCHANGED <<categories, transactions>>
             ELSE /\ owned
                  /\ categories' =
                       IF call.pc = "done"
                       THEN {c \in categories : c.id /= X} ELSE categories
                  /\ transactions' =
                       IF call.pc = "clearTransactions" THEN transactions
                       ELSE {IF t.category_id = X
                             THEN [t EXCEPT !.category_id = NULL]
                             ELSE t : t \in transactions}
                  /\ (call.pc = "done" =>
                        /\ call.result = [success |-> TRUE]
                        /\ \A t \in transactions' : t.category_id /= X)]_vars

\* C22 witness: deleteCategory has deleted category 1 of user 1 and cleared
\* the category of the transaction that had it, and the transaction of
\* user 2 is still in category 2
C22_Witness ==
  /\ writeCalls[1].op = "deleteCategory"
  /\ writeCalls[1].pc = "done"
  /\ writeCalls[1].input = [categoryId |-> 1, userId |-> 1]
  /\ \A c \in categories : c.id /= 1
  /\ \E t \in transactions : t.id = 1 /\ t.category_id = NULL
  /\ \E t \in transactions : t.id = 2 /\ t.category_id = 2

\* C23: updateBudget writes the fields its input gives among category_id
\* (null included), amount and period, and updated_at, and nothing else: id,
\* user_id, created_at, the fields not given and the other budgets stay;
\* when no budget has the id, or the given category is not one of the
\* budget's owner, it throws and the budgets stay as they are
C23_UpdateBudgetFrame ==
  [][\A r \in Requests :
       (writeCalls'[r].op = "updateBudget"
          /\ writeCalls'[r] /= writeCalls[r]) =>
         LET call   == writeCalls'[r]
             input  == call.input
             stored == \E i \in DOMAIN budgets : budgets[i].id = input.id
             given  == input.category_id \notin {Absent, NULL}
         IN  /\ (writeCalls[r].pc = "idle" /\ ~stored) =>
                  (call.pc = "failed" /\ call.error = "Budget not found")
             /\ (writeCalls[r].pc = "idle" /\ stored) =>
                  call.pc = IF given THEN "budgetCategory" ELSE "updateBudget"
             /\ (/\ writeCalls[r].pc = "budgetCategory"
                 /\ \A c \in categories :
                      ~(/\ c.id = input.category_id
                        /\ c.user_id = call.existing.user_id)) =>
                  /\ call.pc = "failed"
                  /\ call.error
                       = "Category not found or does not belong to user"
             /\ call.pc /= "done" => budgets' = budgets
             /\ call.pc = "done" =>
                  /\ DOMAIN budgets' = DOMAIN budgets
                  /\ \A i \in DOMAIN budgets :
                       IF budgets[i].id /= input.id
                       THEN budgets'[i] = budgets[i]
                       ELSE /\ budgets'[i].id = budgets[i].id
                            /\ budgets'[i].user_id = budgets[i].user_id
                            /\ budgets'[i].created_at = budgets[i].created_at
                            /\ budgets'[i].updated_at = now
                            /\ budgets'[i].category_id =
                                 IF input.category_id = Absent
                                 THEN budgets[i].category_id
                                 ELSE input.category_id
                            /\ budgets'[i].amount =
                                 IF input.amount = Absent
                                 THEN budgets[i].amount
                                 ELSE (input.amount + 5) \div 10
                            /\ budgets'[i].period =
                                 IF input.period = AbsentType
                                 THEN budgets[i].period
                                 ELSE input.period
             /\ UNCHANGED <<users, categories, transactions>>]_vars

\* C23 witness: updateBudget has set the category of a budget of category 1
\* to null, leaving its amount and period and moving updated_at
C23_Witness ==
  /\ writeCalls[1].op = "updateBudget"
  /\ writeCalls[1].pc = "done"
  /\ writeCalls[1].input.category_id = NULL
  /\ writeCalls[1].existing.category_id = 1
  /\ writeCalls[1].result.category_id = NULL
  /\ writeCalls[1].result.period = writeCalls[1].existing.period
  /\ writeCalls[1].result.created_at = StoredSince
  /\ writeCalls[1].result.updated_at = now
  /\ now /= StoredSince

\* C27: no two stored budgets have the same user_id, category_id (null
\* counted as a value) and period
C27_OneBudgetPerKey ==
  \A i, j \in DOMAIN budgets :
    (/\ budgets[i].user_id = budgets[j].user_id
     /\ budgets[i].category_id = budgets[j].category_id
     /\ budgets[i].period = budgets[j].period) => i = j

\* C27 witness: an updateBudget has returned a budget that has the user,
\* category and period of another stored budget
C27_Witness ==
  /\ writeCalls[1].op = "updateBudget"
  /\ writeCalls[1].pc = "done"
  /\ \E i \in DOMAIN budgets :
       /\ budgets[i].id /= writeCalls[1].result.id
       /\ budgets[i].user_id = writeCalls[1].result.user_id
       /\ budgets[i].category_id = writeCalls[1].result.category_id
       /\ budgets[i].period = writeCalls[1].result.period

\* C29: every budget and every transaction with a category_id that is not
\* null references a stored category owned by the user of the budget or
\* transaction
C29_CategoriesOfOwner ==
  /\ \A t \in transactions :
       t.category_id /= NULL =>
         \E c \in categories : c.id = t.category_id /\ c.user_id = t.user_id
  /\ \A i \in DOMAIN budgets :
       budgets[i].category_id /= NULL =>
         \E c \in categories :
           c.id = budgets[i].category_id /\ c.user_id = budgets[i].user_id

\* C29 witness: an updateTransaction has returned a transaction of user 1
\* in the category of user 2
C29_Witness ==
  /\ writeCalls[1].op = "updateTransaction"
  /\ writeCalls[1].pc = "done"
  /\ \E t \in transactions, c \in categories :
       /\ t.id = writeCalls[1].result.id
       /\ c.id = t.category_id
       /\ c.user_id /= t.user_id

\* C28: of two createBudget calls in flight with the same user_id,
\* category_id and period at most one succeeds, and at most one budget with
\* those three values is stored
C28_OneCreateSucceeds ==
  \A r \in Requests, q \in Requests :
    (/\ r /= q
     /\ writeCalls[r].op = "createBudget"
     /\ writeCalls[q].op = "createBudget"
     /\ writeCalls[r].input.user_id = writeCalls[q].input.user_id
     /\ writeCalls[r].input.category_id = writeCalls[q].input.category_id
     /\ writeCalls[r].input.period = writeCalls[q].input.period) =>
      /\ ~(writeCalls[r].pc = "done" /\ writeCalls[q].pc = "done")
      /\ Cardinality({i \in DOMAIN budgets :
                        /\ budgets[i].user_id = writeCalls[r].input.user_id
                        /\ budgets[i].category_id
                             = writeCalls[r].input.category_id
                        /\ budgets[i].period = writeCalls[r].input.period})
           <= 1

\* C28 witness: two createBudget calls for the same user, category and
\* period have both returned, each its own stored budget
C28_Witness ==
  /\ writeCalls[1].op = "createBudget" /\ writeCalls[1].pc = "done"
  /\ writeCalls[2].op = "createBudget" /\ writeCalls[2].pc = "done"
  /\ writeCalls[1].result.id /= writeCalls[2].result.id
  /\ writeCalls[1].result.user_id = writeCalls[2].result.user_id
  /\ writeCalls[1].result.category_id = writeCalls[2].result.category_id
  /\ writeCalls[1].result.period = writeCalls[2].result.period
  /\ \A r \in Requests : \E i \in DOMAIN budgets :
       budgets[i].id = writeCalls[r].result.id

\* C30: with updates of the user's transactions running between the queries
\* of a getSummary, the Summary returned is a Summary of the ledger as it
\* was at one instant of the call: of the ledger as it is, or as it was
\* before an update made since the call started
C30_OneSnapshot ==
  \A q \in Requests :
    summaryCalls[q].pc = "done" =>
      summaryCalls[q].result
        \in getSummary(summaryCalls[q].input)
            \cup UNION {IF q \in DOMAIN writeCalls[r].before
                        THEN writeCalls[r].before[q] ELSE {} : r \in Requests}

\* C30 witness: the yearly Summary returned has the total expenses of the
\* ledger before the update and the monthly_data of the ledger after it, and
\* the two ledgers differ in both
C30_Witness ==
  /\ summaryCalls[1].pc = "done"
  /\ writeCalls[2].pc = "done"
  /\ 1 \in DOMAIN writeCalls[2].before
  /\ \E b \in writeCalls[2].before[1],
        a \in getSummary(summaryCalls[1].input) :
       /\ summaryCalls[1].result.total_expenses = b.total_expenses
       /\ summaryCalls[1].result.monthly_data = a.monthly_data
       /\ a.total_expenses /= b.total_expenses
       /\ a.monthly_data /= b.monthly_data

=============================================================================
